---------------------------- MODULE Spec2Model ----------------------------
(***************************************************************************)
(* A model of the result-aggregation and documentation-resolution engine   *)
(* of xls_generator.py: the documentation cache of one                     *)
(* AccessibilityReportGenerator, the summary of calculate_summary and the  *)
(* per-URL and per-site rollups of generate_excel_report.                  *)
(*                                                                         *)
(* Python values are modelled as follows.                                  *)
(*   - a str is a sequence of one-character strings, so that startswith,   *)
(*     endswith, replace, lower, title and split are computed character    *)
(*     by character;                                                       *)
(*   - a dict is a sequence of entries [k |-> key, v |-> value] with       *)
(*     distinct keys, in insertion order (Python dicts iterate in          *)
(*     insertion order);                                                   *)
(*   - an optional key of a document is a sequence of length 0 (the key    *)
(*     is absent) or 1 (the key is present with that value);               *)
(*   - a JSON value stored under pageFlags or pageFlags.details is a       *)
(*     record [t, b, n, items] tagged with its Python type.                *)
(***************************************************************************)
EXTENDS Integers, Sequences, FiniteSets, TLC

(***************************************************************************)
(* str                                                                     *)
(***************************************************************************)
LowerChars ==
    <<"a","b","c","d","e","f","g","h","i","j","k","l","m",
      "n","o","p","q","r","s","t","u","v","w","x","y","z">>

UpperChars ==
    <<"A","B","C","D","E","F","G","H","I","J","K","L","M",
      "N","O","P","Q","R","S","T","U","V","W","X","Y","Z">>

\* str.isupper() / str.islower() of one character
IsUpperChar(c) == \E i \in DOMAIN UpperChars : UpperChars[i] = c

IsLowerChar(c) == \E i \in DOMAIN LowerChars : LowerChars[i] = c

IsCased(c) == IsUpperChar(c) \/ IsLowerChar(c)

CharLower(c) ==
    IF IsUpperChar(c)
    THEN LowerChars[CHOOSE i \in DOMAIN UpperChars : UpperChars[i] = c]
    ELSE c

CharUpper(c) ==
    IF IsLowerChar(c)
    THEN UpperChars[CHOOSE i \in DOMAIN LowerChars : LowerChars[i] = c]
    ELSE c

\* s.lower()
StrLower(s) == [i \in 1..Len(s) |-> CharLower(s[i])]

\* s.upper()
StrUpper(s) == [i \in 1..Len(s) |-> CharUpper(s[i])]

\* s.replace(a, b) for one-character a and b
StrReplace(s, a, b) == [i \in 1..Len(s) |-> IF s[i] = a THEN b ELSE s[i]]

\* s.replace(a, '') for a one-character a
StrRemove(s, a) == SelectSeq(s, LAMBDA c : c # a)

\* s.startswith(p)
StartsWith(s, p) == Len(p) <= Len(s) /\ SubSeq(s, 1, Len(p)) = p

\* s.endswith(p)
EndsWith(s, p) ==
    Len(p) <= Len(s) /\ SubSeq(s, Len(s) - Len(p) + 1, Len(s)) = p

\* s.title(): a cased character is upper-cased when it follows an uncased
\* character (or starts the string) and lower-cased otherwise
StrTitle(s) ==
    [i \in 1..Len(s) |->
        IF i = 1 \/ ~IsCased(s[i - 1]) THEN CharUpper(s[i]) ELSE CharLower(s[i])]

\* s.capitalize(): first character upper-cased, the rest lower-cased
StrCapitalize(s) ==
    [i \in 1..Len(s) |-> IF i = 1 THEN CharUpper(s[i]) ELSE CharLower(s[i])]

\* s.split(sep) for a one-character sep: the list of the pieces between the
\* separators (a string without separator gives one piece, possibly empty)
RECURSIVE SplitFrom(_, _, _, _, _)
SplitFrom(s, sep, i, words, cur) ==
    IF i > Len(s) THEN Append(words, cur)
    ELSE IF s[i] = sep
         THEN SplitFrom(s, sep, i + 1, Append(words, cur), <<>>)
         ELSE SplitFrom(s, sep, i + 1, words, Append(cur, s[i]))

StrSplit(s, sep) == SplitFrom(s, sep, 1, <<>>, <<>>)

\* sep.join(words)
RECURSIVE StrJoin(_, _)
StrJoin(words, sep) ==
    IF Len(words) = 0 THEN <<>>
    ELSE IF Len(words) = 1 THEN words[1]
    ELSE words[1] \o sep \o StrJoin(Tail(words), sep)

(***************************************************************************)
(* dict (insertion-ordered) and optional keys                              *)
(***************************************************************************)
\* key in d
Has(d, key) == \E i \in DOMAIN d : d[i].k = key

\* d[key]
Get(d, key) == d[CHOOSE i \in DOMAIN d : d[i].k = key].v

\* d.get(key, default)
GetOr(d, key, default) == IF Has(d, key) THEN Get(d, key) ELSE default

\* d[key] = value: an existing key keeps its position, a new key is appended
Put(d, key, value) ==
    IF Has(d, key)
    THEN [i \in 1..Len(d) |->
            IF d[i].k = key THEN [k |-> key, v |-> value] ELSE d[i]]
    ELSE Append(d, [k |-> key, v |-> value])

Keys(d) == {d[i].k : i \in DOMAIN d}

\* an optional key: absent, or present with a value
Absent == <<>>

Present(v) == <<v>>

IsPresent(o) == Len(o) = 1

Val(o) == o[1]

RECURSIVE SumSeq(_)
SumSeq(s) == IF Len(s) = 0 THEN 0 ELSE s[1] + SumSeq(Tail(s))

(***************************************************************************)
(* String constants of the source                                          *)
(***************************************************************************)
\* the string literals of the source and of the documents the model is
\* run on, by name
Str ==
    [
     has |-> <<"h","a","s">>,
     space |-> <<" ">>,
     colon_space |-> <<":"," ">>,
     space_dash_space |-> <<" ","-"," ">>,
     pageFlags_dot |-> <<"p","a","g","e","F","l","a","g","s",".">>,
     details_dot |-> <<"d","e","t","a","i","l","s",".">>,
     details |-> <<"d","e","t","a","i","l","s">>,
     unknown_url |-> <<"U","n","k","n","o","w","n"," ","U","R","L">>,
     scheme_sep |-> <<":","/","/">>,
     forms |-> <<"f","o","r","m","s">>,
     Forms |-> <<"F","o","r","m","s">>,
     focus_management |-> <<"f","o","c","u","s","_","m","a","n","a","g","e",
         "m","e","n","t">>,
     focus_hyphen_management |-> <<"f","o","c","u","s","-","m","a","n","a",
         "g","e","m","e","n","t">>,
     focusmanagement |-> <<"f","o","c","u","s","m","a","n","a","g","e","m",
         "e","n","t">>,
     other |-> <<"o","t","h","e","r">>,
     hasInputsWithoutLabels |-> <<"h","a","s","I","n","p","u","t","s","W",
         "i","t","h","o","u","t","L","a","b","e","l","s">>,
     hasLayoutIssues |-> <<"h","a","s","L","a","y","o","u","t","I","s","s",
         "u","e","s">>,
     isResponsive |-> <<"i","s","R","e","s","p","o","n","s","i","v","e">>,
     hasOverflow |-> <<"h","a","s","O","v","e","r","f","l","o","w">>,
     inputsWithoutLabels |-> <<"i","n","p","u","t","s","W","i","t","h","o",
         "u","t","L","a","b","e","l","s">>,
     inputsWithLayoutIssues |-> <<"i","n","p","u","t","s","W","i","t","h",
         "L","a","y","o","u","t","I","s","s","u","e","s">>,
     url_example |-> <<"h","t","t","p","s",":","/","/","e","x","a","m","p",
         "l","e",".","c","o","m">>,
     url_example_about |-> <<"h","t","t","p","s",":","/","/","e","x","a",
         "m","p","l","e",".","c","o","m","/","a","b","o","u","t">>,
     url_other |-> <<"h","t","t","p",":","/","/","b",".","o","r","g","/">>,
     label_e2e |-> <<"F","o","r","m"," ","A","c","c","e","s","s","i","b",
         "i","l","i","t","y"," ","A","n","a","l","y","s","i","s"," ","-",
         " ","I","n","p","u","t"," ","F","i","e","l","d"," ","L","a","b",
         "e","l","i","n","g">>,
     L |-> <<"L">> ]

(***************************************************************************)
(* format_issue_name                                                       *)
(*                                                                         *)
(* A documentation record is [testName, tests]: testName an optional str,  *)
(* tests an optional list of checks [name, resultsFields], name an         *)
(* optional str and resultsFields an optional list of the keys of the      *)
(* resultsFields mapping, in order.                                        *)
(***************************************************************************)
\* flag_name[3:] if flag_name.startswith('has') else flag_name
flag_text_of(flag_name) ==
    IF StartsWith(flag_name, Str.has)
    THEN SubSeq(flag_name, 4, Len(flag_name))
    ELSE flag_name

\* the loop that splits camel case into words
RECURSIVE CamelWords(_, _, _, _)
CamelWords(text, i, words, current_word) ==
    IF i > Len(text) THEN Append(words, current_word)
    ELSE IF IsUpperChar(text[i]) /\ current_word # <<>>
         THEN CamelWords(text, i + 1, Append(words, current_word), <<text[i]>>)
         ELSE CamelWords(text, i + 1, words, Append(current_word, text[i]))

\* issue_type_of over the whole flag name, the prefix kept
issue_type_of_whole_name(flag_name) ==
    StrTitle(StrJoin(CamelWords(flag_name, 1, <<>>, <<>>), Str.space))

\* ' '.join(words).title()
issue_type_of(flag_name) ==
    StrTitle(StrJoin(CamelWords(flag_text_of(flag_name), 1, <<>>, <<>>), Str.space))

\* formatted_test_name_of capitalizing the first word only
formatted_test_name_first_word(test_name) ==
    StrCapitalize(StrReplace(test_name, "_", " "))

\* ' '.join(word.capitalize() for word in test_name.split('_'))
formatted_test_name_of(test_name) ==
    LET words == StrSplit(test_name, "_")
    IN  StrJoin([i \in 1..Len(words) |-> StrCapitalize(words[i])], Str.space)

test_name_variants(test_name) ==
    << test_name,
       StrReplace(test_name, "-", "_"),
       StrReplace(test_name, "_", "-"),
       StrLower(test_name),
       StrRemove(StrRemove(test_name, "-"), "_") >>

flag_variants(flag_name) ==
    << Str.pageFlags_dot \o flag_name,
       Str.pageFlags_dot \o Str.has \o flag_text_of(flag_name),
       Str.details_dot \o flag_name,
       flag_name >>

\* any(field.endswith(fv) or field == fv for fv in flag_variants) for some
\* key of the check's resultsFields
CheckMatches(check, flag_name) ==
    LET results_fields ==
            IF IsPresent(check.resultsFields) THEN Val(check.resultsFields) ELSE <<>>
        fvs == flag_variants(flag_name)
    IN  \E f \in DOMAIN results_fields : \E v \in DOMAIN fvs :
            EndsWith(results_fields[f], fvs[v]) \/ results_fields[f] = fvs[v]

\* the label built from the documentation record found for a variant
DocumentedName(docs, test_name, flag_name) ==
    LET issue_type == issue_type_of(flag_name)
        doc_test_name ==
            IF IsPresent(docs.testName) THEN Val(docs.testName)
            ELSE formatted_test_name_of(test_name)
        tests == IF IsPresent(docs.tests) THEN Val(docs.tests) ELSE <<>>
        hits == {i \in DOMAIN tests : CheckMatches(tests[i], flag_name)}
    IN  IF hits # {}
        THEN LET test == tests[CHOOSE i \in hits : \A j \in hits : i <= j]
             IN  doc_test_name \o Str.space_dash_space \o
                 (IF IsPresent(test.name) THEN Val(test.name) ELSE issue_type)
        ELSE doc_test_name \o Str.colon_space \o issue_type

\* lookup_documentation taking the last variant that is a key of the cache
lookup_documentation_last(cache, test_name) ==
    LET variants == test_name_variants(test_name)
        found == {i \in DOMAIN variants : Has(cache, variants[i])}
    IN  IF found = {} THEN Absent
        ELSE Present(Get(cache,
                 variants[CHOOSE i \in found : \A j \in found : i >= j]))

\* lines 315-317: the record of the first variant that is a key of the cache
lookup_documentation(cache, test_name) ==
    LET variants == test_name_variants(test_name)
        found == {i \in DOMAIN variants : Has(cache, variants[i])}
    IN  IF found = {} THEN Absent
        ELSE Present(Get(cache,
                 variants[CHOOSE i \in found : \A j \in found : i <= j]))

format_issue_name(cache, test_name, flag_name) ==
    LET docs == lookup_documentation(cache, test_name)
    IN  IF IsPresent(docs)
        THEN DocumentedName(Val(docs), test_name, flag_name)
        ELSE formatted_test_name_of(test_name) \o Str.colon_space \o
             issue_type_of(flag_name)

\* a value of the cache that has .get, i.e. is a mapping
is_mapping(docs) == "tests" \in DOMAIN docs

\* format_issue_name raising also when no variant is a key of the cache
format_issue_name_raises_undocumented(cache, test_name, flag_name) ==
    LET docs == lookup_documentation(cache, test_name)
    IN  IF IsPresent(docs) /\ is_mapping(Val(docs)) THEN "none" ELSE "KeyError"

\* the exception format_issue_name leaves with, "none" when it returns:
\* docs.get (line 318) on a value that is no mapping is an AttributeError
format_issue_name_raises(cache, test_name, flag_name) ==
    LET docs == lookup_documentation(cache, test_name)
    IN  IF IsPresent(docs) /\ ~is_mapping(Val(docs)) THEN "AttributeError"
        ELSE "none"

(***************************************************************************)
(* JSON values under pageFlags and pageFlags.details                       *)
(***************************************************************************)
JBool(b) == [t |-> "bool", b |-> b, n |-> 0, items |-> <<>>]

JInt(n) == [t |-> "int", b |-> FALSE, n |-> n, items |-> <<>>]

\* a list of n elements (only len() of it is ever taken)
JList(n) == [t |-> "list", b |-> FALSE, n |-> n, items |-> <<>>]

JStr == [t |-> "str", b |-> FALSE, n |-> 0, items |-> <<>>]

\* a mapping, such as the value of the key 'details' of pageFlags
JDict(d) == [t |-> "dict", b |-> FALSE, n |-> 0, items |-> d]

(***************************************************************************)
(* The flag walk shared by calculate_summary (lines 396-416), the Issues   *)
(* by URL loop (lines 736-753) and the Issues by Site loop (lines          *)
(* 793-810): the three copies differ only in what they do with each        *)
(* (full_issue_type, count) they reach.                                    *)
(***************************************************************************)
RECURSIVE ConcatAll(_)
ConcatAll(seqs) ==
    IF Len(seqs) = 0 THEN <<>> ELSE seqs[1] \o ConcatAll(Tail(seqs))

\* is_issue_flag without the prefix test
is_issue_flag_any_name(flag_name, flag_value) ==
    flag_value.t = "bool" /\ flag_value.b

\* isinstance(flag_value, bool) and flag_value and flag_name.startswith('has')
is_issue_flag(flag_name, flag_value) ==
    flag_value.t = "bool" /\ flag_value.b /\ StartsWith(flag_name, Str.has)

\* isinstance(detail_value, (list, int)); a Python bool is an int
is_list_or_int(detail_value) == detail_value.t \in {"list", "int", "bool"}

\* detail_count with a list counted once, whatever its length
detail_count_list_as_one(detail_value) ==
    IF detail_value.t = "bool" THEN (IF detail_value.b THEN 1 ELSE 0)
    ELSE IF detail_value.t = "list" THEN (IF detail_value.n > 0 THEN 1 ELSE 0)
    ELSE detail_value.n

\* count = len(detail_value) for a list, detail_value otherwise (True is 1)
detail_count(detail_value) ==
    IF detail_value.t = "bool" THEN (IF detail_value.b THEN 1 ELSE 0)
    ELSE detail_value.n

\* detail_hits leaving the loop at the first entry with count > 0
detail_hits_first_only(full_issue_type, details) ==
    LET counted == SelectSeq(details,
                       LAMBDA e : e.v.t \in {"list", "int", "bool"} /\
                                  (IF e.v.t = "bool" THEN e.v.b ELSE e.v.n > 0))
    IN  IF counted = <<>> THEN <<>>
        ELSE <<[issue_type |-> full_issue_type,
                count |-> IF counted[1].v.t = "bool" THEN 1 ELSE counted[1].v.n]>>

\* detail_hits without the test count > 0
detail_hits_any_count(full_issue_type, details) ==
    LET counted == SelectSeq(details, LAMBDA e : is_list_or_int(e.v))
    IN  [i \in 1..Len(counted) |->
            [issue_type |-> full_issue_type, count |-> detail_count(counted[i].v)]]

\* the inner loop over details.items(): one (full_issue_type, count) for
\* every entry that is a list or an int with count > 0
detail_hits(full_issue_type, details) ==
    LET counted == SelectSeq(details,
                       LAMBDA e : is_list_or_int(e.v) /\ detail_count(e.v) > 0)
    IN  [i \in 1..Len(counted) |->
            [issue_type |-> full_issue_type, count |-> detail_count(counted[i].v)]]

\* page_flags.get('details', {})
details_of(page_flags) ==
    IF Has(page_flags, Str.details) THEN Get(page_flags, Str.details).items ELSE <<>>

\* the loop over page_flags.items() of one test
flag_hits(cache, test_name, page_flags) ==
    ConcatAll([i \in 1..Len(page_flags) |->
        IF is_issue_flag(page_flags[i].k, page_flags[i].v)
        THEN detail_hits(format_issue_name(cache, test_name, page_flags[i].k),
                         details_of(page_flags))
        ELSE <<>>])

\* test_data.get(test_name, {}).get('pageFlags', {})
page_flags_of(test_name, test_data) ==
    IF Has(test_data.fields, test_name)
       /\ IsPresent(Get(test_data.fields, test_name).pageFlags)
    THEN Val(Get(test_data.fields, test_name).pageFlags)
    ELSE <<>>

\* the loop over tests.items() of one page result
tests_hits(cache, tests) ==
    ConcatAll([i \in 1..Len(tests) |->
        IF tests[i].v.isdict
        THEN flag_hits(cache, tests[i].k, page_flags_of(tests[i].k, tests[i].v))
        ELSE <<>>])

\* 'results' in result and 'accessibility' in result['results']
has_accessibility(result) ==
    IsPresent(result.results) /\ IsPresent(Val(result.results).accessibility)

accessibility_of(result) == Val(Val(result.results).accessibility)

\* result['results']['accessibility'].get('tests', {})
tests_or_empty(result) ==
    IF IsPresent(accessibility_of(result).tests)
    THEN Val(accessibility_of(result).tests)
    ELSE <<>>

(***************************************************************************)
(* calculate_summary                                                       *)
(***************************************************************************)
\* accumulate storing the count instead of adding it to the stored one
accumulate_overwriting(summary, hit) ==
    [summary EXCEPT
        !.total_issues = @ + hit.count,
        !.issues_by_type = Put(@, hit.issue_type, hit.count)]

\* summary['total_issues'] += count;
\* summary['issues_by_type'][t] = summary['issues_by_type'].get(t, 0) + count
accumulate(summary, hit) ==
    [summary EXCEPT
        !.total_issues = @ + hit.count,
        !.issues_by_type =
            Put(@, hit.issue_type, GetOr(@, hit.issue_type, 0) + hit.count)]

RECURSIVE accumulate_all(_, _)
accumulate_all(summary, hits) ==
    IF Len(hits) = 0 THEN summary
    ELSE accumulate_all(accumulate(summary, hits[1]), Tail(hits))

\* the (full_issue_type, count) pairs the loop over results reaches, in order
summary_hits(cache, results) ==
    ConcatAll([i \in 1..Len(results) |->
        IF has_accessibility(results[i])
        THEN tests_hits(cache, tests_or_empty(results[i]))
        ELSE <<>>])

\* pages_with_issues_of counting every page result that has an
\* accessibility block, whatever its tests
pages_with_issues_any_tests(results) ==
    Len(SelectSeq(results, LAMBDA r : has_accessibility(r)))

\* len([r for r in results if 'results' in r and 'accessibility' in
\*      r['results'] and r['results']['accessibility'].get('tests', {})])
pages_with_issues_of(results) ==
    Len(SelectSeq(results,
            LAMBDA r : has_accessibility(r) /\ tests_or_empty(r) # <<>>))

\* line 403: format_issue_name is called for every issue flag the loop
\* reaches, and its exception leaves calculate_summary
calculate_summary_raises(cache, results) ==
    \E i \in DOMAIN results :
        /\ has_accessibility(results[i])
        /\ LET tests == tests_or_empty(results[i])
           IN  \E j \in DOMAIN tests :
                  /\ tests[j].v.isdict
                  /\ LET page_flags == page_flags_of(tests[j].k, tests[j].v)
                     IN  \E f \in DOMAIN page_flags :
                            /\ is_issue_flag(page_flags[f].k, page_flags[f].v)
                            /\ format_issue_name_raises(
                                   cache, tests[j].k, page_flags[f].k) # "none"

\* completion_time (the wall clock) is left out
calculate_summary(cache, results) ==
    [accumulate_all(
        [total_pages |-> Len(results), pages_with_issues |-> 0,
         total_issues |-> 0, issues_by_type |-> <<>>],
        summary_hits(cache, results))
     EXCEPT !.pages_with_issues = pages_with_issues_of(results)]

(***************************************************************************)
(* Issues by URL and Issues by Site (generate_excel_report)                *)
(***************************************************************************)
DigitChars == <<"0","1","2","3","4","5","6","7","8","9">>

\* urllib.parse.scheme_chars
IsSchemeChar(c) ==
    \/ IsCased(c)
    \/ \E i \in DOMAIN DigitChars : DigitChars[i] = c
    \/ c \in {"+", "-", "."}

\* the least index i >= from with s[i] in chars, Len(s) + 1 when there is none
FirstOf(s, chars, from) ==
    LET at == {i \in from..Len(s) : s[i] \in chars}
    IN  IF at = {} THEN Len(s) + 1 ELSE CHOOSE i \in at : \A j \in at : i <= j

\* urlparse(full_url): the scheme is the text before the first ':' when it
\* starts with a letter and holds only scheme characters; the netloc is
\* the text after a following '//' up to the next '/', '?' or '#'
urlparse(full_url) ==
    LET i == FirstOf(full_url, {":"}, 1)
        has_scheme ==
            /\ 1 < i /\ i <= Len(full_url)
            /\ IsCased(full_url[1])
            /\ \A j \in 1..(i - 1) : IsSchemeChar(full_url[j])
        scheme == IF has_scheme THEN StrLower(SubSeq(full_url, 1, i - 1)) ELSE <<>>
        rest == IF has_scheme THEN SubSeq(full_url, i + 1, Len(full_url)) ELSE full_url
        netloc ==
            IF Len(rest) >= 2 /\ SubSeq(rest, 1, 2) = <<"/","/">>
            THEN SubSeq(rest, 3, FirstOf(rest, {"/", "?", "#"}, 3) - 1)
            ELSE <<>>
    IN  [scheme |-> scheme, netloc |-> netloc]

\* result.get('url', 'Unknown URL')
url_of(result) == IF IsPresent(result.url) THEN Val(result.url) ELSE Str.unknown_url

\* f"{parsed_url.scheme}://{parsed_url.netloc}"
site_url_of(result) ==
    urlparse(url_of(result)).scheme \o Str.scheme_sep \o urlparse(url_of(result)).netloc

\* result['results']['accessibility']['tests'] raises KeyError
tests_key_error(result) ==
    has_accessibility(result) /\ ~IsPresent(accessibility_of(result).tests)

\* the loop of lines 730-761 over results[i..]: [raised, issues_by_url]
RECURSIVE issues_by_url_from(_, _, _, _)
issues_by_url_from(cache, results, i, by_url) ==
    IF i > Len(results) THEN [raised |-> FALSE, issues_by_url |-> by_url]
    ELSE IF tests_key_error(results[i])
         THEN [raised |-> TRUE, issues_by_url |-> by_url]
    ELSE IF ~has_accessibility(results[i])
         THEN issues_by_url_from(cache, results, i + 1, by_url)
    ELSE LET url_issues == tests_hits(cache, Val(accessibility_of(results[i]).tests))
         IN  issues_by_url_from(cache, results, i + 1,
                 IF url_issues # <<>>
                 THEN Put(by_url, url_of(results[i]), url_issues)
                 ELSE by_url)

\* issues_by_site[site_url][t]['Count'] += count;
\* issues_by_site[site_url][t]['Pages Affected'] += 1
RECURSIVE add_site_hits(_, _)
add_site_hits(bucket, hits) ==
    IF Len(hits) = 0 THEN bucket
    ELSE LET old == GetOr(bucket, hits[1].issue_type,
                          [Count |-> 0, PagesAffected |-> 0])
         IN  add_site_hits(
                 Put(bucket, hits[1].issue_type,
                     [Count |-> old.Count + hits[1].count,
                      PagesAffected |-> old.PagesAffected + 1]),
                 Tail(hits))

\* the loop of lines 779-817 over results[i..]: [raised, issues_by_site]
RECURSIVE issues_by_site_from(_, _, _, _)
issues_by_site_from(cache, results, i, by_site) ==
    IF i > Len(results) THEN [raised |-> FALSE, issues_by_site |-> by_site]
    ELSE IF tests_key_error(results[i])
         THEN [raised |-> TRUE, issues_by_site |-> by_site]
    ELSE IF ~has_accessibility(results[i])
         THEN issues_by_site_from(cache, results, i + 1, by_site)
    ELSE LET site_url == site_url_of(results[i])
             hits == tests_hits(cache, Val(accessibility_of(results[i]).tests))
         IN  issues_by_site_from(cache, results, i + 1,
                 Put(by_site, site_url,
                     add_site_hits(GetOr(by_site, site_url, <<>>), hits)))

(***************************************************************************)
(* Documentation sources                                                   *)
(*                                                                         *)
(* A test run is [documentation, tests]: documentation an optional dict    *)
(* from test name to documentation record, tests an optional dict from     *)
(* test name to [isdict, documentation].  A page result is [url, results], *)
(* results an optional [accessibility], accessibility an optional [tests], *)
(* tests an optional dict from test name to test data.  Test data is       *)
(* [isdict, documentation, fields]: fields is the dict of its              *)
(* mapping-valued keys, each a [documentation, pageFlags, details].        *)
(***************************************************************************)
\* lines 642-658: one entry of run['documentation']
register_variants(cache, test_name, doc) ==
    LET test_keys == << StrLower(test_name),
                        StrLower(StrReplace(test_name, "-", "_")),
                        StrLower(StrReplace(test_name, "_", "-")) >>
        free == {i \in DOMAIN test_keys : ~Has(cache, test_keys[i])}
    IN  IF free = {} THEN cache
        ELSE LET test_key == test_keys[CHOOSE i \in free : \A j \in free : i <= j]
                 added == Put(cache, test_key, doc)
             IN  IF test_key # StrLower(test_name)
                 THEN Put(added, StrLower(test_name), doc)
                 ELSE added

RECURSIVE fetch_documentation(_, _, _)
fetch_documentation(cache, documentation, i) ==
    IF i > Len(documentation) THEN cache
    ELSE fetch_documentation(
             register_variants(cache, documentation[i].k, documentation[i].v),
             documentation, i + 1)

\* lines 661-667: inline documentation of run['tests'], stored unconditionally
RECURSIVE fetch_inline(_, _, _)
fetch_inline(cache, tests, i) ==
    IF i > Len(tests) THEN cache
    ELSE fetch_inline(
             IF tests[i].v.isdict /\ IsPresent(tests[i].v.documentation)
             THEN Put(cache, StrLower(tests[i].k), Val(tests[i].v.documentation))
             ELSE cache,
             tests, i + 1)

\* lines 622-667: the body of the loop over all_test_runs
fetch_run(cache, run) ==
    LET with_docs ==
            IF IsPresent(run.documentation)
            THEN fetch_documentation(cache, Val(run.documentation), 1)
            ELSE cache
    IN  IF IsPresent(run.tests)
        THEN fetch_inline(with_docs, Val(run.tests), 1)
        ELSE with_docs

\* if test_name not in self.test_documentation: store
put_if_absent(cache, test_name, doc) ==
    IF Has(cache, test_name) THEN cache ELSE Put(cache, test_name, doc)

RECURSIVE collect_run_documentation(_, _, _)
collect_run_documentation(cache, documentation, i) ==
    IF i > Len(documentation) THEN cache
    ELSE collect_run_documentation(
             put_if_absent(cache, documentation[i].k, documentation[i].v),
             documentation, i + 1)

RECURSIVE collect_run_tests(_, _, _)
collect_run_tests(cache, tests, i) ==
    IF i > Len(tests) THEN cache
    ELSE collect_run_tests(
             IF tests[i].v.isdict /\ IsPresent(tests[i].v.documentation)
             THEN put_if_absent(cache, tests[i].k, Val(tests[i].v.documentation))
             ELSE cache,
             tests, i + 1)

\* collect_test_documentation, lines 137-156: the body of the loop over
\* test_runs
collect_run(cache, run) ==
    LET with_docs ==
            IF IsPresent(run.documentation)
            THEN collect_run_documentation(cache, Val(run.documentation), 1)
            ELSE cache
    IN  IF IsPresent(run.tests)
        THEN collect_run_tests(with_docs, Val(run.tests), 1)
        ELSE with_docs

\* test_name in test_data and 'documentation' in test_data[test_name]
has_nested_documentation(test_name, test_data) ==
    Has(test_data.fields, test_name)
    /\ IsPresent(Get(test_data.fields, test_name).documentation)

\* lines 168-209: one test of a page result.  The branch of lines 196-209
\* is taken only when the test has no nested documentation, so its inner
\* store is never reached.
collect_test(cache, test_name, test_data) ==
    IF ~test_data.isdict THEN cache
    ELSE IF IsPresent(test_data.documentation)
         THEN put_if_absent(cache, test_name, Val(test_data.documentation))
    ELSE IF has_nested_documentation(test_name, test_data)
         THEN put_if_absent(cache, test_name,
                  Val(Get(test_data.fields, test_name).documentation))
    ELSE cache

RECURSIVE collect_tests(_, _, _)
collect_tests(cache, tests, i) ==
    IF i > Len(tests) THEN cache
    ELSE collect_tests(collect_test(cache, tests[i].k, tests[i].v), tests, i + 1)

\* collect_test_documentation, lines 161-209: the body of the first loop
\* over results
collect_result(cache, result) ==
    IF has_accessibility(result)
    THEN collect_tests(cache, tests_or_empty(result), 1)
    ELSE cache

\* lines 272-277: the first field of test_data that is a mapping with a
\* 'documentation' key
first_documented_field(test_data) ==
    LET at == {i \in DOMAIN test_data.fields :
                   IsPresent(test_data.fields[i].v.documentation)}
    IN  IF at = {} THEN Absent
        ELSE Present(Val(test_data.fields[
                 CHOOSE i \in at : \A j \in at : i <= j].v.documentation))

\* lines 237-277: one test of a page result in the second loop:
\* [raised, cache].  test_output_fields maps every name it holds to itself,
\* so output_field is test_name.  A test_data that is not a mapping raises
\* at test_data.items() (line 272) at the latest.
scan_test(cache, test_name, test_data) ==
    IF Has(cache, test_name) THEN [raised |-> FALSE, cache |-> cache]
    ELSE IF ~test_data.isdict THEN [raised |-> TRUE, cache |-> cache]
    ELSE IF IsPresent(test_data.documentation)
         THEN [raised |-> FALSE,
               cache |-> Put(cache, test_name, Val(test_data.documentation))]
    ELSE IF has_nested_documentation(test_name, test_data)
         THEN [raised |-> FALSE,
               cache |-> Put(cache, test_name,
                             Val(Get(test_data.fields, test_name).documentation))]
    ELSE IF IsPresent(first_documented_field(test_data))
         THEN [raised |-> FALSE,
               cache |-> Put(cache, test_name, Val(first_documented_field(test_data)))]
    ELSE [raised |-> FALSE, cache |-> cache]

RECURSIVE scan_tests(_, _, _)
scan_tests(cache, tests, i) ==
    IF i > Len(tests) THEN [raised |-> FALSE, cache |-> cache]
    ELSE LET one == scan_test(cache, tests[i].k, tests[i].v)
         IN  IF one.raised THEN one ELSE scan_tests(one.cache, tests, i + 1)

\* collect_test_documentation, lines 233-277: the body of the second loop
\* over results
scan_result(cache, result) ==
    IF has_accessibility(result)
    THEN scan_tests(cache, tests_or_empty(result), 1)
    ELSE [raised |-> FALSE, cache |-> cache]

(***************************************************************************)
(* The responsive testing matrix (lines 900-989) and the mobile/desktop    *)
(* split of the visualizations sheet (lines 1319-1357, 1490-1499).         *)
(*                                                                         *)
(* accessibility.responsive_testing is an optional [breakpoints,           *)
(* breakpoint_results, consolidated]: breakpoints a list of ints or        *)
(* strings (a string holds its characters in items), breakpoint_results a  *)
(* dict from str(breakpoint) to [tests], tests an optional [responsive],   *)
(* responsive an optional [tests], tests an optional dict from test type   *)
(* to [issues], issues an optional list of [element, id, details,          *)
(* severity]; consolidated an optional [summary], summary an optional      *)
(* [totalIssues].  A matrix row is [Domain, Page, Breakpoint, Test,        *)
(* Status, IssueCount, IssueDetails].                                      *)
(***************************************************************************)
\* str(n) of an int n >= 0
RECURSIVE Numeral(_)
Numeral(n) ==
    IF n < 10 THEN <<DigitChars[n + 1]>>
    ELSE Append(Numeral(n \div 10), DigitChars[(n % 10) + 1])

\* int(s) of a decimal numeral s
int_of(s) ==
    SumSeq([i \in 1..Len(s) |->
        ((CHOOSE d \in DOMAIN DigitChars : DigitChars[d] = s[i]) - 1)
            * 10^(Len(s) - i)])

\* a < b on str: by code point at the first difference, a proper prefix
\* first
StrLess(a, b) ==
    LET code_points == <<" ", "-", ".", "/">> \o DigitChars \o <<":">>
                       \o UpperChars \o <<"_">> \o LowerChars
        code(c) == CHOOSE k \in DOMAIN code_points : code_points[k] = c
        differ == {i \in 1..Len(a) : i <= Len(b) /\ a[i] # b[i]}
        at == CHOOSE i \in differ : \A j \in differ : i <= j
    IN  IF a = b THEN FALSE
        ELSE IF differ = {} THEN Len(a) < Len(b)
        ELSE code(a[at]) < code(b[at])

\* s.replace(sub, '')
RECURSIVE RemoveAll(_, _)
RemoveAll(s, sub) ==
    IF Len(s) = 0 THEN s
    ELSE IF StartsWith(s, sub)
         THEN RemoveAll(SubSeq(s, Len(sub) + 1, Len(s)), sub)
         ELSE <<s[1]>> \o RemoveAll(Tail(s), sub)

\* lines 917-920: [domain, page] of result.get('url', 'Unknown URL')
domain_and_page_of(result) ==
    LET domain_parts ==
            StrSplit(RemoveAll(RemoveAll(url_of(result),
                         <<"h","t","t","p","s",":","/","/">>),
                         <<"h","t","t","p",":","/","/">>), "/")
    IN  [domain |-> domain_parts[1],
         page |-> IF Len(domain_parts) > 1
                  THEN StrJoin(Tail(domain_parts), <<"/">>) ELSE <<>>]

\* lines 906-908: accessibility['responsive_testing'] where there is one
responsive_testing_of(result) ==
    IF has_accessibility(result) THEN accessibility_of(result).responsive_testing
    ELSE Absent

\* lines 911-912: bp_results['tests']['responsive']['tests'] where the
\* three keys are there
responsive_tests_of(bp_results) ==
    IF IsPresent(bp_results.tests)
       /\ IsPresent(Val(bp_results.tests).responsive)
    THEN Val(Val(bp_results.tests).responsive).tests
    ELSE Absent

\* lines 904-913, the first pass: the test types of all page results
collect_test_types(results) ==
    UNION {UNION {IF IsPresent(responsive_tests_of(
                                   Val(responsive_testing_of(results[r]))
                                       .breakpoint_results[b].v))
                  THEN Keys(Val(responsive_tests_of(
                                   Val(responsive_testing_of(results[r]))
                                       .breakpoint_results[b].v)))
                  ELSE {} :
                  b \in DOMAIN Val(responsive_testing_of(results[r]))
                                   .breakpoint_results} :
           r \in {r \in DOMAIN results : IsPresent(responsive_testing_of(results[r]))}}

\* issue_details_of without the note on the issues left out
issue_details_first_three(issues) ==
    LET text(o) == IF IsPresent(o) THEN Val(o) ELSE <<>>
        issue_details == [i \in 1..Len(issues) |->
            text(issues[i].element) \o <<" ">> \o text(issues[i].id) \o <<":", " ">>
            \o text(issues[i].details) \o <<" ", "(">> \o text(issues[i].severity)
            \o <<")">>]
    IN  StrJoin(SubSeq(issue_details, 1, IF Len(issues) < 3 THEN Len(issues) ELSE 3),
                <<"\n">>)

\* lines 961-970: row_data['Issue Details'] of a non-empty list of issues
issue_details_of(issues) ==
    LET text(o) == IF IsPresent(o) THEN Val(o) ELSE <<>>
        first(s) == CHOOSE i \in DOMAIN s : s[i] # " " /\ \A j \in 1..(i - 1) : s[j] = " "
        last(s) == CHOOSE i \in DOMAIN s : s[i] # " " /\ \A j \in (i + 1)..Len(s) : s[j] = " "
        strip(s) == IF \A i \in DOMAIN s : s[i] = " " THEN <<>>
                    ELSE SubSeq(s, first(s), last(s))
        issue_details == [i \in 1..Len(issues) |->
            strip(text(issues[i].element) \o <<" ">> \o text(issues[i].id))
            \o <<":", " ">> \o text(issues[i].details)
            \o <<" ", "(">> \o text(issues[i].severity) \o <<")">>]
        shown == StrJoin(SubSeq(issue_details, 1,
                     IF Len(issues) < 3 THEN Len(issues) ELSE 3), <<"\n">>)
    IN  IF Len(issue_details) > 3
        THEN shown \o <<"\n", ".", ".", ".", "a", "n", "d", " ">>
             \o Numeral(Len(issue_details) - 3) \o <<" ", "m", "o", "r", "e">>
        ELSE shown

\* matrix_row reporting a test type that is absent as passed
matrix_row_absent_as_pass(domain, page, bp, test_name, resp_tests) ==
    LET issues == IF Has(resp_tests, test_name)
                     /\ IsPresent(Get(resp_tests, test_name).issues)
                  THEN Val(Get(resp_tests, test_name).issues) ELSE <<>>
        row_data(status, issue_count, issue_details) ==
            [Domain |-> domain, Page |-> page, Breakpoint |-> bp,
             Test |-> test_name, Status |-> status,
             IssueCount |-> issue_count, IssueDetails |-> issue_details]
    IN  IF Len(issues) > 0
        THEN row_data("Issues Found", JInt(Len(issues)), issue_details_of(issues))
        ELSE row_data("Pass", JInt(0),
                 <<"N","o"," ","i","s","s","u","e","s"," ","d","e","t",
                   "e","c","t","e","d">>)

\* lines 943-979: the row of one test type at one breakpoint
matrix_row(domain, page, bp, test_name, resp_tests) ==
    LET issues == IF IsPresent(Get(resp_tests, test_name).issues)
                  THEN Val(Get(resp_tests, test_name).issues) ELSE <<>>
        row_data(status, issue_count, issue_details) ==
            [Domain |-> domain, Page |-> page, Breakpoint |-> bp,
             Test |-> test_name, Status |-> status,
             IssueCount |-> issue_count, IssueDetails |-> issue_details]
    IN  IF Has(resp_tests, test_name)
        THEN IF Len(issues) > 0
             THEN row_data("Issues Found", JInt(Len(issues)), issue_details_of(issues))
             ELSE row_data("Pass", JInt(0),
                      <<"N","o"," ","i","s","s","u","e","s"," ","d","e","t",
                        "e","c","t","e","d">>)
        ELSE row_data("Not Tested", [JStr EXCEPT !.items = <<"-">>], <<"-">>)

\* lines 916-982, the second pass: the rows in the order they are appended
matrix_rows(results, test_types) ==
    LET sorted_test_types ==
            [k \in 1..Cardinality(test_types) |->
                CHOOSE x \in test_types :
                    Cardinality({y \in test_types : StrLess(y, x)}) = k - 1]
        bp_str(bp) == IF bp.t = "int" THEN Numeral(bp.n) ELSE bp.items
        bp_rows(result, resp_testing, bp) ==
            IF Has(resp_testing.breakpoint_results, bp_str(bp))
               /\ IsPresent(responsive_tests_of(
                      Get(resp_testing.breakpoint_results, bp_str(bp))))
            THEN [t \in 1..Len(sorted_test_types) |->
                     matrix_row(domain_and_page_of(result).domain,
                                domain_and_page_of(result).page,
                                bp, sorted_test_types[t],
                                Val(responsive_tests_of(
                                    Get(resp_testing.breakpoint_results, bp_str(bp)))))]
            ELSE <<>>
    IN  ConcatAll([r \in 1..Len(results) |->
            IF IsPresent(responsive_testing_of(results[r]))
            THEN LET resp_testing == Val(responsive_testing_of(results[r]))
                 IN  ConcatAll([b \in 1..Len(resp_testing.breakpoints) |->
                         bp_rows(results[r], resp_testing, resp_testing.breakpoints[b])])
            ELSE <<>>])

\* line 987: x < y on the keys (Domain, Page, Breakpoint, Test) of two rows
\* whose breakpoints are both ints or both strs
sort_key_less(x, y) ==
    IF x.Domain # y.Domain THEN StrLess(x.Domain, y.Domain)
    ELSE IF x.Page # y.Page THEN StrLess(x.Page, y.Page)
    ELSE IF x.Breakpoint # y.Breakpoint
         THEN IF x.Breakpoint.t = "int"
              THEN x.Breakpoint.n < y.Breakpoint.n
              ELSE StrLess(x.Breakpoint.items, y.Breakpoint.items)
    ELSE StrLess(x.Test, y.Test)

\* line 987: the sort compares an int with a str (TypeError) when two rows
\* of one domain and page differ in the type of their breakpoint
matrix_sort_raises(rows) ==
    \E i, j \in DOMAIN rows :
        /\ rows[i].Domain = rows[j].Domain
        /\ rows[i].Page = rows[j].Page
        /\ rows[i].Breakpoint.t # rows[j].Breakpoint.t

\* line 987: list.sort, which is stable
sorted_rows(rows) ==
    LET place == [i \in DOMAIN rows |->
                     1 + Cardinality({j \in DOMAIN rows :
                             \/ sort_key_less(rows[j], rows[i])
                             \/ ~sort_key_less(rows[i], rows[j]) /\ j < i})]
    IN  [k \in 1..Len(rows) |-> rows[CHOOSE i \in DOMAIN rows : place[i] = k]]

\* line 1319
visual_test_types ==
    << <<"o","v","e","r","f","l","o","w">>,
       <<"t","o","u","c","h","T","a","r","g","e","t","s">>,
       <<"f","o","n","t","S","c","a","l","i","n","g">>,
       <<"f","i","x","e","d","P","o","s","i","t","i","o","n">>,
       <<"c","o","n","t","e","n","t","S","t","a","c","k","i","n","g">> >>

\* lines 1086 and 1184: the charts are drawn when all_breakpoints and
\* domains_with_issues are not empty (issue_by_type then has its keys)
has_visualizations(results) ==
    /\ \E r \in DOMAIN results :
          /\ IsPresent(responsive_testing_of(results[r]))
          /\ Len(Val(responsive_testing_of(results[r])).breakpoints) > 0
    /\ \E r \in DOMAIN results :
          /\ IsPresent(responsive_testing_of(results[r]))
          /\ IsPresent(Val(responsive_testing_of(results[r])).consolidated)
          /\ IsPresent(Val(Val(responsive_testing_of(results[r])).consolidated).summary)
          /\ Val(Val(Val(responsive_testing_of(results[r])).consolidated).summary)
                 .totalIssues > 0

\* line 1039: sorted(breakpoints) compares an int with a str (TypeError)
\* for a page with a consolidated block whose breakpoints are of both types
breakpoint_summary_raises(results) ==
    \E r \in DOMAIN results :
        /\ IsPresent(responsive_testing_of(results[r]))
        /\ IsPresent(Val(responsive_testing_of(results[r])).consolidated)
        /\ \E i, j \in DOMAIN Val(responsive_testing_of(results[r])).breakpoints :
              Val(responsive_testing_of(results[r])).breakpoints[i].t
                  # Val(responsive_testing_of(results[r])).breakpoints[j].t

\* lines 1016-1065: issue_by_breakpoint, the issue counts of the pages
\* with a consolidated block added up by int(bp) over the entries of
\* breakpoint_results that have tests.responsive; a total of 0 adds no key
issue_by_breakpoint_of(results) ==
    LET total_issues(bp_results) ==
            LET tests == IF IsPresent(responsive_tests_of(bp_results))
                         THEN Val(responsive_tests_of(bp_results)) ELSE <<>>
            IN  SumSeq([i \in 1..Len(tests) |->
                    IF IsPresent(tests[i].v.issues)
                    THEN Len(Val(tests[i].v.issues)) ELSE 0])
        counted(resp_testing) ==
            IF IsPresent(resp_testing.consolidated)
            THEN SelectSeq(
                     [b \in 1..Len(resp_testing.breakpoint_results) |->
                         LET bp_results == resp_testing.breakpoint_results[b].v
                         IN  [bp |-> int_of(resp_testing.breakpoint_results[b].k),
                              total |-> IF IsPresent(bp_results.tests)
                                           /\ IsPresent(Val(bp_results.tests).responsive)
                                        THEN total_issues(bp_results) ELSE 0]],
                     LAMBDA c : c.total > 0)
            ELSE <<>>
        all_counted ==
            ConcatAll([r \in 1..Len(results) |->
                IF IsPresent(responsive_testing_of(results[r]))
                THEN counted(Val(responsive_testing_of(results[r]))) ELSE <<>>])
    IN  [bp \in {all_counted[i].bp : i \in DOMAIN all_counted} |->
            SumSeq([i \in 1..Len(all_counted) |->
                IF all_counted[i].bp = bp THEN all_counted[i].total ELSE 0])]

\* lines 1340-1357: test_type_data, for each test type of line 1319 the
\* issue counts added up by int(bp)
test_type_data_of(results) ==
    LET counted(resp_testing) ==
            ConcatAll([b \in 1..Len(resp_testing.breakpoint_results) |->
                LET bp_results == resp_testing.breakpoint_results[b].v
                    tests == IF IsPresent(responsive_tests_of(bp_results))
                             THEN Val(responsive_tests_of(bp_results)) ELSE <<>>
                    with_issues == SelectSeq(tests, LAMBDA e :
                        (\E t \in DOMAIN visual_test_types : visual_test_types[t] = e.k)
                        /\ IsPresent(e.v.issues))
                IN  [i \in 1..Len(with_issues) |->
                        [test_name |-> with_issues[i].k,
                         bp |-> int_of(resp_testing.breakpoint_results[b].k),
                         count |-> Len(Val(with_issues[i].v.issues))]]])
        all_counted ==
            ConcatAll([r \in 1..Len(results) |->
                IF IsPresent(responsive_testing_of(results[r]))
                THEN counted(Val(responsive_testing_of(results[r]))) ELSE <<>>])
        of_type(test_type) == SelectSeq(all_counted, LAMBDA c : c.test_name = test_type)
    IN  [t \in 1..Len(visual_test_types) |->
            [bp \in {of_type(visual_test_types[t])[i].bp :
                        i \in DOMAIN of_type(visual_test_types[t])} |->
                SumSeq([i \in 1..Len(of_type(visual_test_types[t])) |->
                    IF of_type(visual_test_types[t])[i].bp = bp
                    THEN of_type(visual_test_types[t])[i].count ELSE 0])]]

\* mobile_desktop_of with 768 counted as desktop
mobile_desktop_from_768(test_type_data) ==
    LET total(counts, bps) ==
            SumSeq([k \in 1..Cardinality(bps) |->
                counts[CHOOSE b \in bps : Cardinality({c \in bps : c < b}) = k - 1]])
    IN  [t \in DOMAIN test_type_data |->
            [mobile |-> total(test_type_data[t],
                              {b \in DOMAIN test_type_data[t] : b < 768}),
             desktop |-> total(test_type_data[t],
                               {b \in DOMAIN test_type_data[t] : b >= 768})]]

\* lines 1490-1499: mobile_desktop_data
mobile_desktop_of(test_type_data) ==
    LET total(counts, bps) ==
            SumSeq([k \in 1..Cardinality(bps) |->
                counts[CHOOSE b \in bps : Cardinality({c \in bps : c < b}) = k - 1]])
    IN  [t \in DOMAIN test_type_data |->
            [mobile |-> total(test_type_data[t],
                              {b \in DOMAIN test_type_data[t] : b <= 768}),
             desktop |-> total(test_type_data[t],
                               {b \in DOMAIN test_type_data[t] : b > 768})]]

(***************************************************************************)
(* The Test Documentation sheet                                            *)
(*                                                                         *)
(* A row of docs_data is [TestName, Type, Record]: Record, which the       *)
(* sheet does not show, is the key of test_documentation the row was made  *)
(* from.                                                                   *)
(***************************************************************************)
\* lines 694-697: test_obj.get raises AttributeError on a record that is
\* not a mapping
documentation_summary_raises(cache) ==
    \E i \in DOMAIN cache : ~is_mapping(cache[i].v)

\* line 839
display_test_name_of(test_name, doc) ==
    IF IsPresent(doc.testName) THEN Val(doc.testName)
    ELSE StrTitle(StrReplace(test_name, "_", " "))

\* lines 837-869: docs_data in the order its rows are appended
docs_data_of(cache) ==
    ConcatAll([i \in 1..Len(cache) |->
        LET doc == cache[i].v
            display_test_name == display_test_name_of(cache[i].k, doc)
            tests == IF IsPresent(doc.tests) THEN Val(doc.tests) ELSE <<>>
            named == SelectSeq(tests, LAMBDA test :
                         IsPresent(test.name) /\ Len(Val(test.name)) > 0)
        IN  <<[TestName |-> display_test_name, Type |-> "Test", Record |-> cache[i].k]>>
            \o [c \in 1..Len(named) |->
                   [TestName |-> display_test_name \o Str.space_dash_space
                                 \o Val(named[c].name),
                    Type |-> "Check", Record |-> cache[i].k]]])

\* lines 878-883: sort_values(['Test Name', 'type_order']), which is stable
sorted_docs(rows) ==
    LET less(x, y) ==
            IF x.TestName # y.TestName THEN StrLess(x.TestName, y.TestName)
            ELSE x.Type = "Test" /\ y.Type = "Check"
        place == [i \in DOMAIN rows |->
                     1 + Cardinality({j \in DOMAIN rows :
                             \/ less(rows[j], rows[i])
                             \/ ~less(rows[i], rows[j]) /\ j < i})]
    IN  [k \in 1..Len(rows) |-> rows[CHOOSE i \in DOMAIN rows : place[i] = k]]

(***************************************************************************)
(* _flatten_dict                                                           *)
(*                                                                         *)
(* The values of a nested record are the JSON values above, with None,     *)
(* with str values that carry their characters and with lists that carry   *)
(* their elements.  The flattened mapping is a dict from str to str.       *)
(***************************************************************************)
JNone == [t |-> "NoneType", b |-> FALSE, n |-> 0, items |-> <<>>]

\* a str with its characters
JText(chars) == [t |-> "str", b |-> FALSE, n |-> 0, items |-> chars]

\* a list with its elements
JListOf(elements) ==
    [t |-> "list", b |-> FALSE, n |-> Len(elements), items |-> elements]

\* str(n) of an int
int_str(n) == IF n < 0 THEN <<"-">> \o Numeral(0 - n) ELSE Numeral(n)

\* str_of as repr(): a str in quotes
str_of_repr(value) ==
    CASE value.t = "str" -> <<"'">> \o value.items \o <<"'">>
      [] value.t = "int" -> int_str(value.n)
      [] value.t = "bool" -> IF value.b THEN <<"T","r","u","e">>
                             ELSE <<"F","a","l","s","e">>
      [] value.t = "NoneType" -> <<"N","o","n","e">>

\* line 581: str(value) of a value that is neither a dict nor a list
str_of(value) ==
    CASE value.t = "str" -> value.items
      [] value.t = "int" -> int_str(value.n)
      [] value.t = "bool" -> IF value.b THEN <<"T","r","u","e">>
                             ELSE <<"F","a","l","s","e">>
      [] value.t = "NoneType" -> <<"N","o","n","e">>

\* json.dumps of a str: quoted, its quotes and backslashes escaped
dumps_str(s) ==
    <<"\"">>
    \o ConcatAll([i \in 1..Len(s) |->
           IF s[i] = "\"" THEN <<"\\", "\"">>
           ELSE IF s[i] = "\\" THEN <<"\\", "\\">>
           ELSE <<s[i]>>])
    \o <<"\"">>

\* line 579: json.dumps(value) with the default separators
RECURSIVE json_dumps(_)
json_dumps(value) ==
    CASE value.t = "str" -> dumps_str(value.items)
      [] value.t = "int" -> int_str(value.n)
      [] value.t = "bool" -> IF value.b THEN <<"t","r","u","e">>
                             ELSE <<"f","a","l","s","e">>
      [] value.t = "NoneType" -> <<"n","u","l","l">>
      [] value.t = "list" ->
            <<"[">>
            \o StrJoin([i \in 1..Len(value.items) |-> json_dumps(value.items[i])],
                       <<",", " ">>)
            \o <<"]">>
      [] value.t = "dict" ->
            <<"{">>
            \o StrJoin([i \in 1..Len(value.items) |->
                           dumps_str(value.items[i].k) \o <<":", " ">>
                           \o json_dumps(value.items[i].v)],
                       <<",", " ">>)
            \o <<"}">>

\* line 577: items.update(other)
RECURSIVE dict_update(_, _)
dict_update(items, other) ==
    IF Len(other) = 0 THEN items
    ELSE dict_update(Put(items, other[1].k, other[1].v), Tail(other))

\* lines 573-582: the loop of _flatten_dict from the i-th item of d on
RECURSIVE flatten_dict_from(_, _, _, _)
flatten_dict_from(d, prefix, i, items) ==
    IF i > Len(d) THEN items
    ELSE LET full_key == IF Len(prefix) > 0 THEN prefix \o <<".">> \o d[i].k
                         ELSE d[i].k
         IN  flatten_dict_from(d, prefix, i + 1,
                 IF d[i].v.t = "dict"
                 THEN dict_update(items,
                          flatten_dict_from(d[i].v.items, full_key, 1, <<>>))
                 ELSE IF d[i].v.t = "list"
                 THEN Put(items, full_key, json_dumps(d[i].v))
                 ELSE Put(items, full_key, str_of(d[i].v)))

\* lines 571-582
flatten_dict(d, prefix) == flatten_dict_from(d, prefix, 1, <<>>)

(***************************************************************************)
(* TemplateAnalyzer._record_structure (lines 36-46).  structure_set is a   *)
(* set of str; data is a JSON value as above.                              *)
(***************************************************************************)
\* structure_entry without the type annotation
structure_entry_path_only(new_path, value) == new_path

\* line 41: f"{new_path} ({type(value).__name__})"
structure_entry(new_path, value) ==
    new_path \o <<" ", "(">>
    \o (CASE value.t = "dict" -> <<"d","i","c","t">>
          [] value.t = "list" -> <<"l","i","s","t">>
          [] value.t = "str" -> <<"s","t","r">>
          [] value.t = "int" -> <<"i","n","t">>
          [] value.t = "bool" -> <<"b","o","o","l">>
          [] value.t = "NoneType" -> <<"N","o","n","e","T","y","p","e">>)
    \o <<")">>

\* lines 36-46: the set structure_set is after the call.  Every pass of the
\* loop over data.items() adds its entry and what the recursive call on
\* the value adds; set.add only ever adds, so the passes commute.
RECURSIVE record_structure(_, _, _)
record_structure(structure_set, data, path) ==
    IF data.t = "dict"
    THEN structure_set \cup UNION {
             LET key == data.items[i].k
                 value == data.items[i].v
                 new_path == IF Len(path) > 0 THEN path \o <<".">> \o key
                             ELSE key
             IN  {structure_entry(new_path, value)}
                 \cup record_structure({}, value, new_path)
             : i \in DOMAIN data.items}
    ELSE IF data.t = "list" /\ Len(data.items) > 0
    THEN IF data.items[1].t = "dict"
         THEN record_structure(structure_set, data.items[1], path \o <<"[", "]">>)
         ELSE structure_set
    ELSE structure_set

(***************************************************************************)
(* Documents the model is run on                                           *)
(***************************************************************************)
\* FORMS_DOCUMENTATION: testName, and each check's name and the keys of its
\* resultsFields, in order
FORMS_DOCUMENTATION ==
    [testName |-> Present(
        <<"F","o","r","m"," ","A","c","c","e","s","s","i","b","i","l","i",
          "t","y"," ","A","n","a","l","y","s","i","s">>),
     tests |-> Present(<<
        [name |-> Present(
            <<"F","o","r","m"," ","L","a","n","d","m","a","r","k"," ","C",
              "o","n","t","e","x","t">>),
         resultsFields |-> Present(<<
            <<"p","a","g","e","F","l","a","g","s",".","h","a","s","F","o",
              "r","m","s","O","u","t","s","i","d","e","L","a","n","d","m",
              "a","r","k","s">>,
            <<"p","a","g","e","F","l","a","g","s",".","d","e","t","a","i",
              "l","s",".","f","o","r","m","s","O","u","t","s","i","d","e",
              "L","a","n","d","m","a","r","k","s">>,
            <<"d","e","t","a","i","l","s",".","f","o","r","m","s","[","]",
              ".","l","o","c","a","t","i","o","n">> >>)],
        [name |-> Present(
            <<"F","o","r","m"," ","H","e","a","d","i","n","g","s"," ","a",
              "n","d"," ","I","d","e","n","t","i","f","i","c","a","t","i",
              "o","n">>),
         resultsFields |-> Present(<<
            <<"p","a","g","e","F","l","a","g","s",".","h","a","s","F","o",
              "r","m","s","W","i","t","h","o","u","t","H","e","a","d","i",
              "n","g","s">>,
            <<"p","a","g","e","F","l","a","g","s",".","d","e","t","a","i",
              "l","s",".","f","o","r","m","s","W","i","t","h","o","u","t",
              "H","e","a","d","i","n","g","s">>,
            <<"d","e","t","a","i","l","s",".","f","o","r","m","s","[","]",
              ".","h","e","a","d","i","n","g">> >>)],
        [name |-> Present(
            <<"I","n","p","u","t"," ","F","i","e","l","d"," ","L","a","b",
              "e","l","i","n","g">>),
         resultsFields |-> Present(<<
            <<"p","a","g","e","F","l","a","g","s",".","h","a","s","I","n",
              "p","u","t","s","W","i","t","h","o","u","t","L","a","b","e",
              "l","s">>,
            <<"p","a","g","e","F","l","a","g","s",".","d","e","t","a","i",
              "l","s",".","i","n","p","u","t","s","W","i","t","h","o","u",
              "t","L","a","b","e","l","s">>,
            <<"d","e","t","a","i","l","s",".","f","o","r","m","s","[","]",
              ".","i","n","p","u","t","s","[","]",".","l","a","b","e","l">> >>)],
        [name |-> Present(
            <<"P","l","a","c","e","h","o","l","d","e","r"," ","T","e","x",
              "t"," ","M","i","s","u","s","e">>),
         resultsFields |-> Present(<<
            <<"p","a","g","e","F","l","a","g","s",".","h","a","s","P","l",
              "a","c","e","h","o","l","d","e","r","O","n","l","y","I","n",
              "p","u","t","s">>,
            <<"p","a","g","e","F","l","a","g","s",".","d","e","t","a","i",
              "l","s",".","i","n","p","u","t","s","W","i","t","h","P","l",
              "a","c","e","h","o","l","d","e","r","O","n","l","y">>,
            <<"d","e","t","a","i","l","s",".","v","i","o","l","a","t","i",
              "o","n","s">> >>)],
        [name |-> Present(
            <<"F","o","r","m"," ","L","a","y","o","u","t"," ","a","n","d",
              " ","S","t","r","u","c","t","u","r","e">>),
         resultsFields |-> Present(<<
            <<"p","a","g","e","F","l","a","g","s",".","h","a","s","L","a",
              "y","o","u","t","I","s","s","u","e","s">>,
            <<"p","a","g","e","F","l","a","g","s",".","d","e","t","a","i",
              "l","s",".","i","n","p","u","t","s","W","i","t","h","L","a",
              "y","o","u","t","I","s","s","u","e","s">>,
            <<"d","e","t","a","i","l","s",".","f","o","r","m","s","[","]",
              ".","l","a","y","o","u","t","I","s","s","u","e","s">> >>)],
        [name |-> Present(
            <<"F","o","r","m"," ","C","o","n","t","r","o","l"," ","C","o",
              "n","t","r","a","s","t">>),
         resultsFields |-> Present(<<
            <<"p","a","g","e","F","l","a","g","s",".","h","a","s","C","o",
              "n","t","r","a","s","t","I","s","s","u","e","s">>,
            <<"p","a","g","e","F","l","a","g","s",".","d","e","t","a","i",
              "l","s",".","i","n","p","u","t","s","W","i","t","h","C","o",
              "n","t","r","a","s","t","I","s","s","u","e","s">>,
            <<"d","e","t","a","i","l","s",".","f","o","r","m","s","[","]",
              ".","i","n","p","u","t","s","[","]",".","c","o","n","t","r",
              "a","s","t">> >>)] >>)]

\* a documentation record of another content: no testName, one check
\* without name and resultsFields, one check for hasLayoutIssues
ALT_DOCUMENTATION ==
    [testName |-> Absent,
     tests |-> Present(<<
        [name |-> Absent, resultsFields |-> Absent],
        [name |-> Present(Str.L), resultsFields |-> Present(<<Str.hasLayoutIssues>>)] >>)]

(***************************************************************************)
(* Bounds and the inputs drawn within them                                 *)
(***************************************************************************)
\* the most page results the query returns
MaxPages == 2

\* the most test runs in the test_runs collection
MaxRuns == 2

SeqUpTo(S, n) == UNION {[1..k -> S] : k \in 0..n}

Entry(key, value) == [k |-> key, v |-> value]

NOT_A_DICT == [isdict |-> FALSE, documentation |-> Absent, fields |-> <<>>]

TestData(documentation, fields) ==
    [isdict |-> TRUE, documentation |-> documentation, fields |-> fields]

TestObj(documentation, pageFlags, details) ==
    [documentation |-> documentation, pageFlags |-> pageFlags, details |-> details]

Page(url, tests) ==
    [url |-> url,
     results |-> Present([accessibility |->
                    Present([tests |-> tests, responsive_testing |-> Absent])])]

\* a page result whose one test carries page_flags in its same-named object
FlaggedPage(url, test_name, page_flags) ==
    Page(url, Present(<<Entry(test_name,
        TestData(Absent, <<Entry(test_name,
            TestObj(Absent, Present(page_flags), Absent))>>))>>))

\* values met under pageFlags.details
DetailValues ==
    {JList(0), JList(2), JInt(-1), JInt(0), JInt(3), JBool(TRUE), JStr}

\* pageFlags.details: absent, empty, or one or two entries
DetailsChoices ==
    {<<>>, <<Entry(Str.details, JDict(<<>>))>>}
    \cup {<<Entry(Str.details, JDict(<<Entry(Str.inputsWithoutLabels, v)>>))>> :
            v \in DetailValues}
    \cup {<<Entry(Str.details, JDict(<<Entry(Str.inputsWithoutLabels, v),
                                      Entry(Str.inputsWithLayoutIssues, w)>>))>> :
            v \in DetailValues, w \in DetailValues}

\* the flags of pageFlags: hasInputsWithoutLabels, then none, one or two
\* others
FlagChoices ==
    {<<Entry(Str.hasInputsWithoutLabels, v)>> \o others :
        v \in {JBool(TRUE), JBool(FALSE), JInt(1)},
        others \in {<<>>,
                    <<Entry(Str.hasLayoutIssues, JBool(TRUE))>>,
                    <<Entry(Str.isResponsive, JBool(TRUE)),
                      Entry(Str.hasLayoutIssues, JInt(1))>>}}

PageFlagsChoices == {f \o d : f \in FlagChoices, d \in DetailsChoices}

\* page results of https://example.com with every choice of pageFlags
RichPages ==
    {FlaggedPage(Present(Str.url_example), Str.forms, pf) : pf \in PageFlagsChoices}

E2E_PAGE_FLAGS ==
    <<Entry(Str.hasInputsWithoutLabels, JBool(TRUE)),
      Entry(Str.details, JDict(<<Entry(Str.inputsWithoutLabels, JList(2))>>))>>

\* the end-to-end example with `details` beside pageFlags, not inside it
E2E_SIBLING_PAGE ==
    Page(Present(Str.url_example), Present(<<Entry(Str.forms,
        TestData(Absent, <<Entry(Str.forms,
            TestObj(Absent,
                    Present(<<Entry(Str.hasInputsWithoutLabels, JBool(TRUE))>>),
                    Present(<<Entry(Str.inputsWithoutLabels, JList(2))>>)))>>))>>))

\* page results missing `results`, `accessibility` or `tests`, with an
\* empty tests mapping, or with a test whose data is no mapping
MalformedPages ==
    { [url |-> Present(Str.url_example), results |-> Absent],
      [url |-> Present(Str.url_example),
       results |-> Present([accessibility |-> Absent])],
      Page(Present(Str.url_example), Absent) }

PlainPages ==
    MalformedPages
    \cup { Page(Present(Str.url_example), Present(<<>>)),
           Page(Present(Str.url_example), Present(<<Entry(Str.forms, NOT_A_DICT)>>)),
           E2E_SIBLING_PAGE,
           FlaggedPage(Present(Str.url_other), Str.focus_management, E2E_PAGE_FLAGS) }
    \cup { FlaggedPage(url, Str.forms, E2E_PAGE_FLAGS) :
             url \in {Present(Str.url_example), Present(Str.url_example_about),
                      Present(Str.url_other), Absent} }

RUN_FORMS ==
    [documentation |-> Present(<<Entry(Str.forms, FORMS_DOCUMENTATION)>>),
     tests |-> Absent]

\* the inputs of the specification Spec: one page result with any choice
\* of pageFlags, or up to MaxPages plain page results
SummaryResults ==
    {<<p>> : p \in RichPages} \cup SeqUpTo(PlainPages, MaxPages)

SummaryRuns == SeqUpTo({RUN_FORMS}, MaxRuns)

RunWithDocumentation(test_name, doc) ==
    [documentation |-> Present(<<Entry(test_name, doc)>>), tests |-> Absent]

RunWithInlineDocumentation(test_name, doc) ==
    [documentation |-> Absent,
     tests |-> Present(<<Entry(test_name,
                  [isdict |-> TRUE, documentation |-> Present(doc)])>>)]

Docs == {FORMS_DOCUMENTATION, ALT_DOCUMENTATION}

\* test runs carrying documentation
DocRuns ==
    {RunWithDocumentation(n, d) :
        n \in {Str.forms, Str.focus_hyphen_management}, d \in Docs}
    \cup {RunWithDocumentation(Str.Forms, ALT_DOCUMENTATION),
          RunWithInlineDocumentation(Str.forms, ALT_DOCUMENTATION)}

\* page results carrying documentation: inline, in the same-named object,
\* in another field; and one whose test data is no mapping
DocPages ==
    { Page(Present(Str.url_example), Present(<<Entry(Str.Forms,
          TestData(Present(ALT_DOCUMENTATION), <<>>))>>)),
      Page(Present(Str.url_example), Present(<<Entry(Str.forms,
          TestData(Absent, <<Entry(Str.forms,
              TestObj(Present(ALT_DOCUMENTATION), Present(E2E_PAGE_FLAGS),
                      Absent))>>))>>)),
      Page(Present(Str.url_other), Present(<<Entry(Str.focus_management,
          TestData(Absent, <<Entry(Str.other,
              TestObj(Present(FORMS_DOCUMENTATION), Absent, Absent))>>))>>)),
      Page(Present(Str.url_example_about), Present(<<Entry(Str.forms,
          TestData(Present(FORMS_DOCUMENTATION), <<>>))>>)),
      Page(Present(Str.url_example), Present(<<Entry(Str.forms, NOT_A_DICT)>>)) }

\* a list of k issues
Issues(k) ==
    [i \in 1..k |-> [element |-> Present(<<"d","i","v">>),
                     id |-> Present(Numeral(i)),
                     details |-> Present(<<"w","i","d","e">>),
                     severity |-> Present(<<"h","i","g","h">>)]]

\* a page result with a responsive_testing block and an empty tests
\* mapping
RespPage(url, breakpoints, breakpoint_results, consolidated) ==
    [url |-> url,
     results |-> Present([accessibility |-> Present(
         [tests |-> Present(<<>>),
          responsive_testing |-> Present(
              [breakpoints |-> breakpoints,
               breakpoint_results |-> breakpoint_results,
               consolidated |-> consolidated])])])]

\* breakpoint lists: ints, ints out of order, numeric strings, both types
BreakpointsChoices ==
    [ints |-> <<JInt(320), JInt(768), JInt(1024)>>,
     unordered |-> <<JInt(1024), JInt(320)>>,
     strs |-> <<[JStr EXCEPT !.items = Numeral(320)],
                [JStr EXCEPT !.items = Numeral(1024)]>>,
     mixed |-> <<JInt(320), [JStr EXCEPT !.items = Numeral(768)]>>]

\* breakpoint_results: every breakpoint with both test types; 1024 without
\* entry and 768 with one test type, its issues missing; a test type that
\* line 1319 does not list, an issue without id, 1024 without tests
BreakpointResultsChoices ==
    LET overflow == visual_test_types[1]
        touchTargets == visual_test_types[2]
        bp_results(tests) ==
            [tests |-> Present([responsive |-> Present([tests |-> Present(tests)])])]
        both(k) == bp_results(<<Entry(overflow, [issues |-> Present(Issues(k))]),
                                Entry(touchTargets, [issues |-> Present(<<>>)])>>)
    IN  [all |-> <<Entry(Numeral(320), both(4)), Entry(Numeral(768), both(2)),
                   Entry(Numeral(1024), both(1))>>,
         some |-> <<Entry(Numeral(320), both(3)),
                    Entry(Numeral(768),
                          bp_results(<<Entry(overflow, [issues |-> Absent])>>))>>,
         other |-> <<Entry(Numeral(768), bp_results(
                        <<Entry(<<"c","u","s","t","o","m">>,
                                [issues |-> Present(Issues(1))]),
                          Entry(touchTargets, [issues |-> Present(
                              <<[element |-> Present(<<"i","m","g">>),
                                 id |-> Absent, details |-> Absent,
                                 severity |-> Present(<<"l","o","w">>)]>>)])>>)),
                     Entry(Numeral(1024), [tests |-> Absent])>>]

\* consolidated: missing, without summary, with totalIssues 0 or 2
ConsolidatedChoices ==
    {Absent, Present([summary |-> Absent])}
    \cup {Present([summary |-> Present([totalIssues |-> n])]) : n \in {0, 2}}

\* one page result with every choice of responsive_testing
RichRespPages ==
    {RespPage(Present(url), BreakpointsChoices[b], BreakpointResultsChoices[r], c) :
        url \in {Str.url_example, Str.url_example_about, Str.url_other},
        b \in DOMAIN BreakpointsChoices, r \in DOMAIN BreakpointResultsChoices,
        c \in ConsolidatedChoices}

PlainRespPages ==
    LET with_issues == Present([summary |-> Present([totalIssues |-> 2])])
    IN  { RespPage(Present(Str.url_example), BreakpointsChoices.ints,
                   BreakpointResultsChoices.all, with_issues),
          RespPage(Present(Str.url_example), BreakpointsChoices.unordered,
                   BreakpointResultsChoices.some, Absent),
          RespPage(Present(Str.url_example), BreakpointsChoices.strs,
                   BreakpointResultsChoices.all, Absent),
          RespPage(Present(Str.url_other), BreakpointsChoices.strs,
                   BreakpointResultsChoices.all, with_issues),
          RespPage(Present(Str.url_example_about), BreakpointsChoices.ints,
                   BreakpointResultsChoices.other, with_issues),
          RespPage(Absent, BreakpointsChoices.unordered,
                   BreakpointResultsChoices.all, Absent),
          Page(Present(Str.url_example), Present(<<>>)) }

\* values of a nested record: scalars, mappings (an empty one among them)
\* and lists (one of them empty, the others with scalars, lists and
\* mappings as elements, the last one with a mapping as its first element)
FlattenValues ==
    << JInt(1), JText(<<"x">>), JBool(TRUE), JNone,
       JDict(<<>>),
       JDict(<<Entry(<<"b">>, JInt(2))>>),
       JDict(<<Entry(<<"b">>, JDict(<<Entry(<<"c">>, JListOf(<<JInt(1)>>))>>)),
               Entry(<<"d">>, JText(<<>>))>>),
       JListOf(<<>>),
       JListOf(<<JInt(0 - 2), JText(<<"a", "\"", "\\">>), JBool(FALSE), JNone>>),
       JListOf(<<JListOf(<<JInt(10)>>),
                 JDict(<<Entry(<<"k">>, JListOf(<<JText(<<>>)>>)),
                         Entry(<<"q", "\"">>, JNone)>>)>>),
       JDict(<<Entry(<<"b">>, JListOf(<<JInt(2)>>))>>),
       JListOf(<<JDict(<<Entry(<<"k">>, JInt(1))>>),
                 JDict(<<Entry(<<"z">>, JText(<<"x">>))>>)>>) >>

\* the records {k1: v1, k2: v2}; under the keys 'a.b' and 'a' the paths
\* a.b and a -> b render to one dotted string
FlattenRecords ==
    [i \in 1..(2 * Len(FlattenValues) * Len(FlattenValues)) |->
        LET pair == (i - 1) \div 2
            v1 == FlattenValues[(pair \div Len(FlattenValues)) + 1]
            v2 == FlattenValues[(pair % Len(FlattenValues)) + 1]
        IN  IF i % 2 = 0
            THEN <<Entry(<<"a", ".", "b">>, v1), Entry(<<"a">>, v2)>>
            ELSE <<Entry(<<"a">>, v1), Entry(<<"c">>, v2)>>]

FlattenPrefixes == {<<>>, Str.forms, <<"a">>}

\* the arguments format_issue_name is called with
FormatTestNames ==
    {Str.forms, Str.Forms, Str.focus_management, Str.focus_hyphen_management}

FormatFlagNames ==
    {Str.hasInputsWithoutLabels, Str.hasLayoutIssues, Str.hasOverflow,
     Str.isResponsive, Str.has}

\* self.test_documentation when format_issue_name is called on its own: no
\* key, one key, or two keys with a record each; a value may be no mapping
FormatCaches ==
    LET keys == {Str.forms, Str.Forms, Str.focus_management,
                 Str.focus_hyphen_management, Str.focusmanagement}
    IN  {<<>>}
        \cup {<<Entry(k, d)>> : k \in keys, d \in Docs \cup {JStr}}
        \cup {<<Entry(k[1], d1), Entry(k[2], d2)>> :
                k \in {kk \in keys \X keys : kk[1] # kk[2]},
                d1 \in {FORMS_DOCUMENTATION}, d2 \in {ALT_DOCUMENTATION}}

(***************************************************************************)
(* State                                                                   *)
(***************************************************************************)
VARIABLES
    test_runs,           \* db.test_runs.find({})
    page_results,        \* db.page_results.find(query)
    test_documentation,  \* self.test_documentation
    summary,             \* what calculate_summary returned, once it has
    issues_by_url,       \* issues_by_url of generate_excel_report
    issues_by_site,      \* issues_by_site of generate_excel_report
    format_call,         \* the last call of format_issue_name on its own
    test_types,          \* test_types of the first pass over the results
    responsive_matrix_data,  \* the rows of the Responsive Testing Matrix
    mobile_desktop_data, \* mobile_desktop_data, once it is computed
    flatten_call,        \* the call of _flatten_dict on its own: d, prefix and what it returned
    docs_data,           \* the rows of the Test Documentation sheet
    structure_call,      \* _record_structure: its arguments and the set it leaves
    issue_by_breakpoint, \* issue_by_breakpoint of the breakpoint summary
    pc,                  \* where generate_excel_report stands
    idx                  \* the position of the loop it is in

vars == <<test_runs, page_results, test_documentation, summary, format_call,
          test_types, responsive_matrix_data, mobile_desktop_data,
          flatten_call,
          docs_data,
          structure_call,
          issue_by_breakpoint,
          issues_by_url, issues_by_site, pc, idx>>

\* the state after AccessibilityReportGenerator.__init__
Constructed ==
    /\ test_documentation = <<>>
    /\ summary = Absent
    /\ format_call = Absent
    /\ test_types = {}
    /\ responsive_matrix_data = <<>>
    /\ mobile_desktop_data = Absent
    /\ issues_by_url = <<>>
    /\ issues_by_site = <<>>
    /\ flatten_call = [d |-> <<[k |-> <<"a">>, v |-> JInt(1)]>>, prefix |-> <<>>, returned |-> Absent]
    /\ docs_data = <<>>
    /\ structure_call = [structure_set |-> {}, data |-> JDict(<<Entry(<<"a">>, JInt(1))>>), path |-> <<>>, returned |-> Absent]
    /\ issue_by_breakpoint = <<>>
    /\ pc = "idle"
    /\ idx = 1

Init ==
    /\ test_runs \in SummaryRuns
    /\ page_results \in SummaryResults
    /\ Constructed

\* the inputs of the specification DocSpec: documentation sources
DocInit ==
    /\ test_runs \in SeqUpTo(DocRuns, MaxRuns)
    /\ page_results \in SeqUpTo(DocPages, MaxPages)
    /\ Constructed

\* the inputs of the specification FormatSpec: a generator that has built
\* reports before, so that test_documentation holds what they left
FormatInit ==
    /\ test_runs \in {<<>>, <<RUN_FORMS>>}
    /\ page_results \in {<<>>, <<Page(Present(Str.url_example), Present(<<>>))>>}
    /\ summary = Absent
    /\ format_call = Absent
    /\ test_types = {}
    /\ responsive_matrix_data = <<>>
    /\ mobile_desktop_data = Absent
    /\ issues_by_url = <<>>
    /\ issues_by_site = <<>>
    /\ flatten_call = [d |-> <<[k |-> <<"a">>, v |-> JInt(1)]>>, prefix |-> <<>>, returned |-> Absent]
    /\ docs_data = <<>>
    /\ structure_call = [structure_set |-> {}, data |-> JDict(<<Entry(<<"a">>, JInt(1))>>), path |-> <<>>, returned |-> Absent]
    /\ issue_by_breakpoint = <<>>
    /\ pc = "idle"
    /\ idx = 1
    /\ test_documentation \in FormatCaches

\* the inputs of the specification FlattenSpec: a nested record and a
\* prefix for _flatten_dict
FlattenInit ==
    /\ test_runs = <<RUN_FORMS>>
    /\ page_results = <<Page(Present(Str.url_example), Present(<<>>))>>
    /\ test_documentation = <<>>
    /\ summary = Absent
    /\ format_call = Absent
    /\ \E i \in DOMAIN FlattenRecords : \E prefix \in FlattenPrefixes :
          flatten_call = [d |-> FlattenRecords[i], prefix |-> prefix,
                          returned |-> Absent]
    /\ structure_call = [structure_set |-> {}, data |-> JDict(<<Entry(<<"a">>, JInt(1))>>), path |-> <<>>, returned |-> Absent]
    /\ issue_by_breakpoint = <<>>
    /\ docs_data = <<>>
    /\ test_types = {}
    /\ responsive_matrix_data = <<>>
    /\ mobile_desktop_data = Absent
    /\ issues_by_url = <<>>
    /\ issues_by_site = <<>>
    /\ pc = "idle"
    /\ idx = 1

\* the inputs of the specification StructureSpec: a destination set that is
\* empty or holds entries of earlier calls, any value as data, and a path
StructureInit ==
    /\ test_runs = <<RUN_FORMS>>
    /\ page_results = <<Page(Present(Str.url_example), Present(<<>>))>>
    /\ test_documentation = <<>>
    /\ summary = Absent
    /\ format_call = Absent
    /\ flatten_call = [d |-> <<[k |-> <<"a">>, v |-> JInt(1)]>>, prefix |-> <<>>, returned |-> Absent]
    /\ \E structure_set \in {{}, {<<"a", " ", "(", "i", "n", "t", ")">>, <<"z">>}} :
       \E path \in {<<>>, <<"p">>} :
       \E i \in 1..(Len(FlattenValues) + Len(FlattenRecords)) :
          structure_call =
              [structure_set |-> structure_set,
               data |-> IF i <= Len(FlattenValues) THEN FlattenValues[i]
                        ELSE JDict(FlattenRecords[i - Len(FlattenValues)]),
               path |-> path,
               returned |-> Absent]
    /\ issue_by_breakpoint = <<>>
    /\ docs_data = <<>>
    /\ test_types = {}
    /\ responsive_matrix_data = <<>>
    /\ mobile_desktop_data = Absent
    /\ issues_by_url = <<>>
    /\ issues_by_site = <<>>
    /\ pc = "idle"
    /\ idx = 1

\* the inputs of the specification PivotSpec: page results with
\* responsive_testing blocks
PivotInit ==
    /\ test_runs \in {<<>>, <<RUN_FORMS>>}
    /\ page_results \in {<<p>> : p \in RichRespPages}
                        \cup SeqUpTo(PlainRespPages, MaxPages)
    /\ Constructed

(***************************************************************************)
(* generate_excel_report, one action per loop iteration or block           *)
(***************************************************************************)
\* the stage after the loops over the test runs
AfterRuns == IF Len(page_results) > 0 THEN "collect_results" ELSE "summary"

\* lines 584-620: the queries
Begin ==
    /\ pc = "idle"
    /\ pc' = IF Len(test_runs) > 0 THEN "fetch" ELSE AfterRuns
    /\ idx' = 1
    /\ UNCHANGED <<test_runs, page_results, test_documentation, summary,
                   issues_by_url, issues_by_site>>
    /\ UNCHANGED <<format_call, test_types, responsive_matrix_data,
                   mobile_desktop_data>>
    /\ UNCHANGED flatten_call
    /\ UNCHANGED docs_data
    /\ UNCHANGED structure_call
    /\ UNCHANGED issue_by_breakpoint

\* lines 622-667: one test run of the explicit documentation fetch
FetchRun ==
    /\ pc = "fetch"
    /\ test_documentation' = fetch_run(test_documentation, test_runs[idx])
    /\ IF idx < Len(test_runs)
       THEN pc' = pc /\ idx' = idx + 1
       ELSE pc' = "collect_runs" /\ idx' = 1
    /\ UNCHANGED <<test_runs, page_results, summary, issues_by_url, issues_by_site>>
    /\ UNCHANGED <<format_call, test_types, responsive_matrix_data,
                   mobile_desktop_data>>
    /\ UNCHANGED flatten_call
    /\ UNCHANGED docs_data
    /\ UNCHANGED structure_call
    /\ UNCHANGED issue_by_breakpoint

\* collect_test_documentation, lines 137-156: one test run
CollectRun ==
    /\ pc = "collect_runs"
    /\ test_documentation' = collect_run(test_documentation, test_runs[idx])
    /\ IF idx < Len(test_runs)
       THEN pc' = pc /\ idx' = idx + 1
       ELSE pc' = AfterRuns /\ idx' = 1
    /\ UNCHANGED <<test_runs, page_results, summary, issues_by_url, issues_by_site>>
    /\ UNCHANGED <<format_call, test_types, responsive_matrix_data,
                   mobile_desktop_data>>
    /\ UNCHANGED flatten_call
    /\ UNCHANGED docs_data
    /\ UNCHANGED structure_call
    /\ UNCHANGED issue_by_breakpoint

\* collect_test_documentation, lines 161-209: one page result
CollectResult ==
    /\ pc = "collect_results"
    /\ test_documentation' = collect_result(test_documentation, page_results[idx])
    /\ IF idx < Len(page_results)
       THEN pc' = pc /\ idx' = idx + 1
       ELSE pc' = "scan" /\ idx' = 1
    /\ UNCHANGED <<test_runs, page_results, summary, issues_by_url, issues_by_site>>
    /\ UNCHANGED <<format_call, test_types, responsive_matrix_data,
                   mobile_desktop_data>>
    /\ UNCHANGED flatten_call
    /\ UNCHANGED docs_data
    /\ UNCHANGED structure_call
    /\ UNCHANGED issue_by_breakpoint

\* collect_test_documentation, lines 233-277: one page result of the
\* second scan; an exception leaves generate_excel_report
ScanResult ==
    /\ pc = "scan"
    /\ LET scanned == scan_result(test_documentation, page_results[idx])
       IN  /\ test_documentation' = scanned.cache
           /\ IF scanned.raised THEN pc' = "raised" /\ idx' = idx
              ELSE IF idx < Len(page_results) THEN pc' = pc /\ idx' = idx + 1
              ELSE pc' = "summary" /\ idx' = 1
    /\ UNCHANGED <<test_runs, page_results, summary, issues_by_url, issues_by_site>>
    /\ UNCHANGED <<format_call, test_types, responsive_matrix_data,
                   mobile_desktop_data>>
    /\ UNCHANGED flatten_call
    /\ UNCHANGED docs_data
    /\ UNCHANGED structure_call
    /\ UNCHANGED issue_by_breakpoint

\* line 700: summary = self.calculate_summary(test_run_ids)
Summarize ==
    /\ pc = "summary"
    /\ IF documentation_summary_raises(test_documentation)
       THEN summary' = summary /\ pc' = "raised"
       ELSE /\ summary' = Present(calculate_summary(test_documentation, page_results))
            /\ pc' = "by_url"
    /\ UNCHANGED <<test_runs, page_results, test_documentation,
                   issues_by_url, issues_by_site, idx>>
    /\ UNCHANGED <<format_call, test_types, responsive_matrix_data,
                   mobile_desktop_data>>
    /\ UNCHANGED flatten_call
    /\ UNCHANGED docs_data
    /\ UNCHANGED structure_call
    /\ UNCHANGED issue_by_breakpoint

\* lines 729-761: Issues by URL; a KeyError leaves generate_excel_report
IssuesByUrl ==
    /\ pc = "by_url"
    /\ LET done == issues_by_url_from(test_documentation, page_results, 1, <<>>)
       IN  /\ issues_by_url' = done.issues_by_url
           /\ pc' = IF done.raised THEN "raised" ELSE "by_site"
    /\ UNCHANGED <<test_runs, page_results, test_documentation, summary,
                   issues_by_site, idx>>
    /\ UNCHANGED <<format_call, test_types, responsive_matrix_data,
                   mobile_desktop_data>>
    /\ UNCHANGED flatten_call
    /\ UNCHANGED docs_data
    /\ UNCHANGED structure_call
    /\ UNCHANGED issue_by_breakpoint

\* lines 778-817: Issues by Site
IssuesBySite ==
    /\ pc = "by_site"
    /\ LET done == issues_by_site_from(test_documentation, page_results, 1, <<>>)
       IN  /\ issues_by_site' = done.issues_by_site
           /\ pc' = IF done.raised THEN "raised" ELSE "documentation"
    /\ UNCHANGED <<test_runs, page_results, test_documentation, summary,
                   issues_by_url, idx>>
    /\ UNCHANGED <<format_call, test_types, responsive_matrix_data,
                   mobile_desktop_data>>
    /\ UNCHANGED flatten_call
    /\ UNCHANGED docs_data
    /\ UNCHANGED structure_call
    /\ UNCHANGED issue_by_breakpoint

\* lines 834-892: the Test Documentation sheet
DocumentationSheet ==
    /\ pc = "documentation"
    /\ docs_data' = sorted_docs(docs_data_of(test_documentation))
    /\ pc' = "matrix"
    /\ UNCHANGED <<test_runs, page_results, test_documentation, summary,
                   issues_by_url, issues_by_site, idx>>
    /\ UNCHANGED <<format_call, test_types, responsive_matrix_data,
                   mobile_desktop_data, flatten_call>>
    /\ UNCHANGED structure_call
    /\ UNCHANGED issue_by_breakpoint

\* lines 900-989: the Responsive Testing Matrix; a TypeError of the sort
\* leaves generate_excel_report
ResponsiveMatrix ==
    /\ pc = "matrix"
    /\ LET collected == collect_test_types(page_results)
           rows == matrix_rows(page_results, collected)
       IN  /\ test_types' = collected
           /\ IF matrix_sort_raises(rows)
              THEN responsive_matrix_data' = <<>> /\ pc' = "raised"
              ELSE responsive_matrix_data' = sorted_rows(rows)
                   /\ pc' = "visualizations"
    /\ UNCHANGED <<test_runs, page_results, test_documentation, summary,
                   issues_by_url, issues_by_site, idx, format_call,
                   mobile_desktop_data>>
    /\ UNCHANGED flatten_call
    /\ UNCHANGED docs_data
    /\ UNCHANGED structure_call
    /\ UNCHANGED issue_by_breakpoint

\* lines 991-1570: the Responsive Breakpoint Summary, whose TypeError
\* leaves generate_excel_report, and the Responsive Visualizations sheet,
\* where there is data for it
Visualizations ==
    /\ pc = "visualizations"
    /\ IF breakpoint_summary_raises(page_results)
       THEN /\ mobile_desktop_data' = Absent
            /\ issue_by_breakpoint' = <<>>
            /\ pc' = "raised"
       ELSE /\ mobile_desktop_data' =
                  IF has_visualizations(page_results)
                  THEN Present(mobile_desktop_of(test_type_data_of(page_results)))
                  ELSE Absent
            /\ issue_by_breakpoint' = issue_by_breakpoint_of(page_results)
            /\ pc' = "done"
    /\ UNCHANGED <<test_runs, page_results, test_documentation, summary,
                   issues_by_url, issues_by_site, idx, format_call,
                   test_types, responsive_matrix_data>>
    /\ UNCHANGED flatten_call
    /\ UNCHANGED docs_data
    /\ UNCHANGED structure_call

\* calculate_summary called on its own on the constructed generator
CallCalculateSummary ==
    /\ pc = "idle"
    /\ IF calculate_summary_raises(test_documentation, page_results)
       THEN summary' = summary /\ pc' = "raised"
       ELSE /\ summary' = Present(calculate_summary(test_documentation,
                                                     page_results))
            /\ pc' = "returned"
    /\ UNCHANGED <<test_runs, page_results, test_documentation,
                   issues_by_url, issues_by_site, idx>>
    /\ UNCHANGED <<format_call, test_types, responsive_matrix_data,
                   mobile_desktop_data>>
    /\ UNCHANGED flatten_call
    /\ UNCHANGED docs_data
    /\ UNCHANGED structure_call
    /\ UNCHANGED issue_by_breakpoint

\* format_issue_name called on its own on a generator whose
\* test_documentation earlier reports have filled
CallFormatIssueName ==
    /\ pc = "idle"
    /\ \E test_name \in FormatTestNames, flag_name \in FormatFlagNames :
          LET raised == format_issue_name_raises(test_documentation,
                                                 test_name, flag_name)
          IN  format_call' = Present(
                  [test_name |-> test_name, flag_name |-> flag_name,
                   raised |-> raised,
                   label |-> IF raised = "none"
                             THEN format_issue_name(test_documentation,
                                                    test_name, flag_name)
                             ELSE <<>>])
    /\ pc' = "returned"
    /\ UNCHANGED <<test_runs, page_results, test_documentation, summary,
                   issues_by_url, issues_by_site, idx>>
    /\ UNCHANGED <<test_types, responsive_matrix_data, mobile_desktop_data>>
    /\ UNCHANGED flatten_call
    /\ UNCHANGED docs_data
    /\ UNCHANGED structure_call
    /\ UNCHANGED issue_by_breakpoint

\* generate_excel_report is called again on the same generator, for
\* another query: lines 584-620 start from what __init__ and the earlier
\* call left in self.test_documentation.  The query returns no page result,
\* or one page result whose test forms has flags, without documentation or
\* with a record of its own in forms.documentation
NextReport ==
    /\ pc \in {"done", "raised"}
    /\ test_runs' = <<>>
    /\ page_results' \in
           {<<>>,
            <<FlaggedPage(Present(Str.url_example), Str.forms, E2E_PAGE_FLAGS)>>,
            <<Page(Present(Str.url_example), Present(<<Entry(Str.forms,
                  TestData(Absent, <<Entry(Str.forms,
                      TestObj(Present(ALT_DOCUMENTATION),
                              Present(E2E_PAGE_FLAGS), Absent))>>))>>))>>}
    /\ summary' = Absent
    /\ format_call' = Absent
    /\ test_types' = {}
    /\ responsive_matrix_data' = <<>>
    /\ mobile_desktop_data' = Absent
    /\ docs_data' = <<>>
    /\ issue_by_breakpoint' = <<>>
    /\ issues_by_url' = <<>>
    /\ issues_by_site' = <<>>
    /\ pc' = "idle"
    /\ idx' = 1
    /\ UNCHANGED <<test_documentation, flatten_call>>
    /\ UNCHANGED structure_call

\* _flatten_dict called on its own, lines 571-582
CallFlattenDict ==
    /\ pc = "idle"
    /\ flatten_call' = [flatten_call EXCEPT
           !.returned = Present(flatten_dict(flatten_call.d, flatten_call.prefix))]
    /\ pc' = "returned"
    /\ UNCHANGED <<test_runs, page_results, test_documentation, summary,
                   issues_by_url, issues_by_site, idx>>
    /\ UNCHANGED <<format_call, test_types, responsive_matrix_data,
                   mobile_desktop_data>>
    /\ UNCHANGED docs_data
    /\ UNCHANGED structure_call
    /\ UNCHANGED issue_by_breakpoint

\* _record_structure called on its own, lines 36-46
CallRecordStructure ==
    /\ pc = "idle"
    /\ structure_call' = [structure_call EXCEPT
           !.returned = Present(record_structure(structure_call.structure_set,
                                                 structure_call.data,
                                                 structure_call.path))]
    /\ pc' = "returned"
    /\ UNCHANGED <<test_runs, page_results, test_documentation, summary,
                   issues_by_url, issues_by_site, idx>>
    /\ UNCHANGED <<format_call, test_types, responsive_matrix_data,
                   mobile_desktop_data>>
    /\ UNCHANGED <<flatten_call, docs_data>>
    /\ UNCHANGED issue_by_breakpoint

Next ==
    \/ Begin
    \/ FetchRun
    \/ CollectRun
    \/ CollectResult
    \/ ScanResult
    \/ Summarize
    \/ IssuesByUrl
    \/ IssuesBySite
    \/ DocumentationSheet
    \/ ResponsiveMatrix
    \/ Visualizations
    \/ NextReport
    \/ CallCalculateSummary
    \/ CallFormatIssueName
    \/ CallFlattenDict
    \/ CallRecordStructure

Spec == Init /\ [][Next]_vars

DocSpec == DocInit /\ [][Next]_vars

FormatSpec == FormatInit /\ [][Next]_vars

PivotSpec == PivotInit /\ [][Next]_vars

FlattenSpec == FlattenInit /\ [][Next]_vars

StructureSpec == StructureInit /\ [][Next]_vars

(***************************************************************************)
(* Claims                                                                  *)
(***************************************************************************)
Computed == IsPresent(summary)

Summary == Val(summary)

\* the counts stored in issues_by_type, in order
ByTypeCounts ==
    [i \in 1..Len(Summary.issues_by_type) |-> Summary.issues_by_type[i].v]

\* C1: after calculate_summary returns, the values of issues_by_type add up
\* to total_issues.
C1_SummaryConservation ==
    Computed => SumSeq(ByTypeCounts) = Summary.total_issues

\* C1 witness: a summary with two issue types and several issues
C1_Witness ==
    Computed /\ Len(Summary.issues_by_type) >= 2 /\ Summary.total_issues >= 3

\* the tests mapping of page result r as the summary reads it: empty when
\* `results`, `accessibility` or `tests` is missing
TestsRead(r) ==
    IF IsPresent(r.results) /\ IsPresent(Val(r.results).accessibility)
       /\ IsPresent(Val(Val(r.results).accessibility).tests)
    THEN Val(Val(Val(r.results).accessibility).tests)
    ELSE <<>>

\* the pageFlags of the same-named object of a test, empty when there is none
PageFlagsRead(test) ==
    IF test.v.isdict /\ Has(test.v.fields, test.k)
       /\ IsPresent(Get(test.v.fields, test.k).pageFlags)
    THEN Val(Get(test.v.fields, test.k).pageFlags)
    ELSE <<>>

\* a flag that is boolean, true and 'has'-prefixed
IssueFlag(flag) ==
    flag.v.t = "bool" /\ flag.v.b /\ Len(flag.k) >= 3 /\ SubSeq(flag.k, 1, 3) = Str.has

\* the counts of the entries of pageFlags.details that qualify: the length
\* of a non-empty list, the value of a positive int (True is the int 1)
QualifyingCounts(page_flags) ==
    LET details == IF Has(page_flags, Str.details)
                   THEN Get(page_flags, Str.details).items ELSE <<>>
        value(v) == IF v.t = "bool" THEN (IF v.b THEN 1 ELSE 0) ELSE v.n
        counted == SelectSeq(details,
                       LAMBDA e : e.v.t \in {"list", "int", "bool"} /\ value(e.v) > 0)
    IN  [i \in 1..Len(counted) |-> value(counted[i].v)]

\* the sum, over every issue flag of the input whose label satisfies
\* Wanted, of Multiplicity(the qualifying counts of its test)
SumOverIssueFlags(Wanted(_), Multiplicity(_)) ==
    SumSeq([p \in 1..Len(page_results) |->
        LET tests == TestsRead(page_results[p])
        IN  SumSeq([t \in 1..Len(tests) |->
                LET page_flags == PageFlagsRead(tests[t])
                IN  SumSeq([f \in 1..Len(page_flags) |->
                        IF IssueFlag(page_flags[f])
                           /\ Wanted(format_issue_name(test_documentation,
                                         tests[t].k, page_flags[f].k))
                        THEN Multiplicity(QualifyingCounts(page_flags))
                        ELSE 0])])])

AnyLabel(label) == TRUE

\* every (page, test) of the input that has an issue flag
FlaggedTests ==
    {pt \in UNION {{<<p, t>> : t \in DOMAIN TestsRead(page_results[p])} :
                      p \in DOMAIN page_results} :
        \E f \in DOMAIN PageFlagsRead(TestsRead(page_results[pt[1]])[pt[2]]) :
            IssueFlag(PageFlagsRead(TestsRead(page_results[pt[1]])[pt[2]])[f])}

QualifyingAt(pt) ==
    QualifyingCounts(PageFlagsRead(TestsRead(page_results[pt[1]])[pt[2]]))

\* the end-to-end example: one page result of https://example.com whose
\* test forms has pageFlags {hasInputsWithoutLabels: true} and the detail
\* inputsWithoutLabels, a list of 2 items, inside pageFlags
E2E_PAGE == FlaggedPage(Present(Str.url_example), Str.forms, E2E_PAGE_FLAGS)

FormsDocumented ==
    Has(test_documentation, Str.forms)
    /\ Get(test_documentation, Str.forms) = FORMS_DOCUMENTATION

E2E_Expected ==
    /\ Summary.total_issues = 2
    /\ Has(Summary.issues_by_type, Str.label_e2e)
    /\ Get(Summary.issues_by_type, Str.label_e2e) = 2

\* C2 as stated, the detail being either beside pageFlags (as the data model
\* places `details`) or inside it: with FORMS_DOCUMENTATION registered for
\* forms, the summary of the end-to-end example counts 2 issues of type
\* "Form Accessibility Analysis - Input Field Labeling".
C2_EndToEnd_AsStated ==
    (Computed /\ FormsDocumented /\ page_results \in {<<E2E_PAGE>>, <<E2E_SIBLING_PAGE>>})
        => E2E_Expected

\* C2 amended: the same, when the detail inputsWithoutLabels is an entry of
\* pageFlags.details.
C2_EndToEnd ==
    (Computed /\ FormsDocumented /\ page_results = <<E2E_PAGE>>) => E2E_Expected

\* C2 witness: the summary of the end-to-end example, forms documented
C2_Witness ==
    Computed /\ FormsDocumented /\ page_results = <<E2E_PAGE>> /\ pc = "done"

\* the multiplicity C3 states: 1 when no detail qualifies
DefaultOne(counts) == IF Len(counts) = 0 THEN 1 ELSE SumSeq(counts)

\* C3: an issue flag whose test has no qualifying detail is counted once, so
\* total_issues is the sum over the issue flags of 1 where nothing
\* qualifies (and of what the details give where something does).
C3_DefaultMultiplicity ==
    Computed => Summary.total_issues = SumOverIssueFlags(AnyLabel, DefaultOne)

\* the multiplicity C4 states: the first qualifying count of two or more
FirstOfSeveral(counts) == IF Len(counts) >= 2 THEN counts[1] ELSE SumSeq(counts)

InputFlags ==
    UNION {UNION {{[test |-> TestsRead(page_results[p])[t].k, flag |-> fl] :
                      fl \in {PageFlagsRead(TestsRead(page_results[p])[t])[f] :
                                f \in DOMAIN PageFlagsRead(TestsRead(page_results[p])[t])}} :
                  t \in DOMAIN TestsRead(page_results[p])} :
           p \in DOMAIN page_results}

\* C5: only flags that are boolean, true and 'has'-prefixed are counted:
\* every entry of issues_by_type is the label of such a flag, and an input
\* without such a flag gives no entry and total_issues = 0.
C5_FlagFilter ==
    Computed =>
        /\ \A i \in DOMAIN Summary.issues_by_type :
              \E x \in InputFlags :
                  /\ IssueFlag(x.flag)
                  /\ Summary.issues_by_type[i].k =
                        format_issue_name(test_documentation, x.test, x.flag.k)
        /\ (\A x \in InputFlags : ~IssueFlag(x.flag)) =>
              (Summary.total_issues = 0 /\ Summary.issues_by_type = <<>>)

\* C5 witness: a summary without issues of pageFlags holding a false
\* 'has' flag, a true flag without the prefix, a 'has' flag that is a
\* number, and a qualifying detail
C5_Witness ==
    /\ Computed
    /\ Summary.total_issues = 0
    /\ \E x \in InputFlags : x.flag.v = JBool(FALSE) /\ StartsWith(x.flag.k, Str.has)
    /\ \E x \in InputFlags : x.flag.v = JBool(TRUE) /\ ~StartsWith(x.flag.k, Str.has)
    /\ \E x \in InputFlags : x.flag.v.t = "int" /\ StartsWith(x.flag.k, Str.has)
    /\ \E x \in InputFlags : x.flag.v.t = "dict" /\ x.flag.v.items # <<>>
                             /\ x.flag.v.items[1].v = JList(2)

\* C6: pages_with_issues is the number of page results with a non-empty
\* tests mapping, and total_pages the number of page results.
C6_PageCounts ==
    Computed =>
        /\ Summary.pages_with_issues =
              Cardinality({p \in DOMAIN page_results :
                              Len(TestsRead(page_results[p])) > 0})
        /\ Summary.total_pages = Len(page_results)

\* C6 witness: two page results, one counted although no flag of it is
\* an issue, the other without tests
C6_Witness ==
    /\ Computed
    /\ Summary.total_pages = 2
    /\ Summary.pages_with_issues = 1
    /\ Summary.total_issues = 0

\* the sum of Count over the rows of Issues by URL
UrlCountSum ==
    SumSeq([u \in 1..Len(issues_by_url) |->
        SumSeq([j \in 1..Len(issues_by_url[u].v) |-> issues_by_url[u].v[j].count])])

\* the sum of Total Count over the rows of Issues by Site
SiteCountSum ==
    SumSeq([u \in 1..Len(issues_by_site) |->
        SumSeq([j \in 1..Len(issues_by_site[u].v) |-> issues_by_site[u].v[j].v.Count])])

\* C7: when the summary and both rollups complete, the counts of Issues by
\* URL, the counts of Issues by Site and total_issues have the same sum, and
\* no site has two buckets.
C7_RollupAgreement ==
    pc = "done" =>
        /\ UrlCountSum = Summary.total_issues
        /\ SiteCountSum = Summary.total_issues
        /\ \A i, j \in DOMAIN issues_by_site :
              issues_by_site[i].k = issues_by_site[j].k => i = j

\* C8: a page result lacking `results`, `accessibility` or `tests` is
\* skipped and raises nothing: when every test's data is a mapping,
\* generate_excel_report raises no exception.
C8_MalformedSkipped ==
    (\A p \in DOMAIN page_results :
        \A t \in DOMAIN TestsRead(page_results[p]) :
            TestsRead(page_results[p])[t].v.isdict)
        => pc # "raised"

\* C9: during one report build a key of the documentation cache, once
\* present, keeps its value: no step replaces the record stored under it.
C9_FirstFoundWins ==
    [][\A i \in DOMAIN test_documentation :
          /\ Has(test_documentation', test_documentation[i].k)
          /\ Get(test_documentation', test_documentation[i].k) =
                test_documentation[i].v]_vars

\* the test names the input registers documentation under: the keys of a
\* test run's documentation, the tests of a test run or of a page result
\* that carry documentation, inline or in one of their fields
RegisteredNames ==
    UNION {{Val(test_runs[r].documentation)[i].k :
               i \in DOMAIN Val(test_runs[r].documentation)} :
           r \in {r \in DOMAIN test_runs : IsPresent(test_runs[r].documentation)}}
    \cup UNION {{Val(test_runs[r].tests)[i].k :
                    i \in {i \in DOMAIN Val(test_runs[r].tests) :
                              IsPresent(Val(test_runs[r].tests)[i].v.documentation)}} :
                r \in {r \in DOMAIN test_runs : IsPresent(test_runs[r].tests)}}
    \cup UNION {{TestsRead(page_results[p])[t].k :
                    t \in {t \in DOMAIN TestsRead(page_results[p]) :
                        LET data == TestsRead(page_results[p])[t].v
                        IN  \/ IsPresent(data.documentation)
                            \/ \E f \in DOMAIN data.fields :
                                  IsPresent(data.fields[f].v.documentation)}} :
                p \in DOMAIN page_results}

\* C10: once the documentation is collected, every registered test name is
\* looked up to the same record in upper case, with '_' replaced by '-'
\* and with '-' replaced by '_'.
C10_VariantClosure ==
    pc \in {"summary", "by_url", "by_site", "done"} =>
        \A T \in RegisteredNames :
            \A V \in {StrUpper(T), StrReplace(T, "_", "-"), StrReplace(T, "-", "_")} :
                lookup_documentation(test_documentation, V) =
                    lookup_documentation(test_documentation, T)

\* a call of format_issue_name on its own has returned or raised
Called == IsPresent(format_call)

Call == Val(format_call)

\* the five spellings of the test name, in the order they are tried
Spellings ==
    << Call.test_name,
       StrReplace(Call.test_name, "-", "_"),
       StrReplace(Call.test_name, "_", "-"),
       StrLower(Call.test_name),
       StrRemove(StrRemove(Call.test_name, "-"), "_") >>

FoundSpellings == {i \in 1..5 : Has(test_documentation, Spellings[i])}

Documented == FoundSpellings # {}

\* the record of the first spelling that is a key of the cache
FirstRecord ==
    Get(test_documentation,
        Spellings[CHOOSE i \in FoundSpellings : \A j \in FoundSpellings : i <= j])

\* a check whose resultsFields has a key that equals or ends with
\* pageFlags.<flagName>, pageFlags.has<flagText>, details.<flagName> or
\* <flagName>
CheckNamesFlag(check) ==
    LET flag == Call.flag_name
        text == IF Len(flag) >= 3 /\ SubSeq(flag, 1, 3) = <<"h","a","s">>
                THEN SubSeq(flag, 4, Len(flag)) ELSE flag
        pf == <<"p","a","g","e","F","l","a","g","s",".">>
        forms == { pf \o flag, pf \o <<"h","a","s">> \o text,
                   <<"d","e","t","a","i","l","s",".">> \o flag, flag }
    IN  /\ IsPresent(check.resultsFields)
        /\ \E k \in DOMAIN Val(check.resultsFields) : \E f \in forms :
              LET key == Val(check.resultsFields)[k]
              IN  Len(f) <= Len(key)
                  /\ SubSeq(key, Len(key) - Len(f) + 1, Len(key)) = f

ChecksOfFirstRecord ==
    IF IsPresent(FirstRecord.tests) THEN Val(FirstRecord.tests) ELSE <<>>

ChecksNamingFlag ==
    {i \in DOMAIN ChecksOfFirstRecord : CheckNamesFlag(ChecksOfFirstRecord[i])}

\* the issue type of each flag name the resolver is called with
ExpectedIssueType ==
    CASE Call.flag_name = Str.hasInputsWithoutLabels ->
            <<"I","n","p","u","t","s"," ","W","i","t","h","o","u","t"," ",
              "L","a","b","e","l","s">>
      [] Call.flag_name = Str.hasLayoutIssues ->
            <<"L","a","y","o","u","t"," ","I","s","s","u","e","s">>
      [] Call.flag_name = Str.hasOverflow -> <<"O","v","e","r","f","l","o","w">>
      [] Call.flag_name = Str.isResponsive ->
            <<"I","s"," ","R","e","s","p","o","n","s","i","v","e">>
      [] Call.flag_name = Str.has -> <<>>

\* the formatted name of each test name the resolver is called with
ExpectedFormattedTestName ==
    CASE Call.test_name \in {Str.forms, Str.Forms} -> <<"F","o","r","m","s">>
      [] Call.test_name = Str.focus_management ->
            <<"F","o","c","u","s"," ","M","a","n","a","g","e","m","e","n","t">>
      [] Call.test_name = Str.focus_hyphen_management ->
            <<"F","o","c","u","s","-","m","a","n","a","g","e","m","e","n","t">>

\* doc.testName, the formatted test name where the record has none
ExpectedDocTestName ==
    IF IsPresent(FirstRecord.testName) THEN Val(FirstRecord.testName)
    ELSE ExpectedFormattedTestName

\* C11: when a spelling of the test name is a key of the cache and a check
\* of the first such record names the flag in its resultsFields, the label
\* is "<doc.testName> - <check.name>" for the first such check (the issue
\* type standing in for a missing check name).
C11_DocumentedLabel ==
    (Called /\ Documented /\ Call.raised = "none" /\ ChecksNamingFlag # {}) =>
        LET check == ChecksOfFirstRecord[
                CHOOSE i \in ChecksNamingFlag : \A j \in ChecksNamingFlag : i <= j]
        IN  Call.label = ExpectedDocTestName \o <<" ","-"," ">> \o
                (IF IsPresent(check.name) THEN Val(check.name)
                 ELSE ExpectedIssueType)

\* C11 witness: focus_management is documented under its third spelling
\* only, a later spelling holding another record, and the flag is named by
\* the third check
C11_Witness ==
    /\ Called
    /\ Call.test_name = Str.focus_management
    /\ Call.flag_name = Str.hasInputsWithoutLabels
    /\ test_documentation = <<Entry(Str.focus_hyphen_management, FORMS_DOCUMENTATION),
                              Entry(Str.focusmanagement, ALT_DOCUMENTATION)>>
    /\ Call.label = Str.label_e2e

\* C12: when a spelling of the test name is a key of the cache and no check
\* of the first such record names the flag, the label is
\* "<doc.testName>: <issueType>", whatever the later spellings hold.
C12_DocumentedWithoutCheck ==
    (Called /\ Documented /\ Call.raised = "none" /\ ChecksNamingFlag = {}) =>
        Call.label = ExpectedDocTestName \o <<":"," ">> \o ExpectedIssueType

\* C12 witness: the record of the first spelling has no check for the flag,
\* the record of a later spelling has one
C12_Witness ==
    /\ Called
    /\ Call.test_name = Str.focus_management
    /\ Call.flag_name = Str.hasInputsWithoutLabels
    /\ test_documentation = <<Entry(Str.focus_hyphen_management, FORMS_DOCUMENTATION),
                              Entry(Str.focus_management, ALT_DOCUMENTATION)>>
    /\ Call.label = ExpectedFormattedTestName \o <<":"," ">> \o ExpectedIssueType

\* C13: when no spelling of the test name is a key of the cache, the label
\* is "<formattedTestName>: <issueType>"; for forms and
\* hasInputsWithoutLabels it is "Forms: Inputs Without Labels".
C13_FallbackLabel ==
    (Called /\ ~Documented) =>
        /\ Call.label = ExpectedFormattedTestName \o <<":"," ">> \o ExpectedIssueType
        /\ (Call.test_name = Str.forms /\ Call.flag_name = Str.hasInputsWithoutLabels) =>
              Call.label = <<"F","o","r","m","s",":"," ","I","n","p","u","t","s",
                             " ","W","i","t","h","o","u","t"," ","L","a","b",
                             "e","l","s">>

\* C13 witness: a test name of two words resolved against a cache that
\* documents another test
C13_Witness ==
    /\ Called
    /\ Call.test_name = Str.focus_management
    /\ Call.flag_name = Str.hasLayoutIssues
    /\ test_documentation = <<Entry(Str.forms, FORMS_DOCUMENTATION)>>
    /\ Call.label = <<"F","o","c","u","s"," ","M","a","n","a","g","e","m","e",
                      "n","t",":"," ","L","a","y","o","u","t"," ","I","s","s",
                      "u","e","s">>

\* C14: a call of format_issue_name with a flag name that does not start
\* with 'has' fails with MissingPrefixError.
C14_MissingPrefixError ==
    (Called /\ ~(Len(Call.flag_name) >= 3 /\ SubSeq(Call.flag_name, 1, 3) = Str.has))
        => Call.raised = "MissingPrefixError"

\* C15: with a flag name that starts with 'has' and a cache whose records
\* are all mappings, format_issue_name returns and does not raise, and
\* returns the fallback label when the test name is not documented.
C15_ResolverTotality ==
    (/\ Called
     /\ Len(Call.flag_name) >= 3 /\ SubSeq(Call.flag_name, 1, 3) = Str.has
     /\ \A i \in DOMAIN test_documentation :
           DOMAIN test_documentation[i].v = {"testName", "tests"}) =>
        /\ Call.raised = "none"
        /\ ~Documented =>
              Call.label = ExpectedFormattedTestName \o <<":"," ">> \o ExpectedIssueType

\* C15 witness: the record found has no testName, its first check neither
\* name nor resultsFields
C15_Witness ==
    /\ Called
    /\ Call.test_name = Str.forms
    /\ Call.flag_name = Str.hasLayoutIssues
    /\ test_documentation = <<Entry(Str.forms, ALT_DOCUMENTATION)>>
    /\ Call.raised = "none"
    /\ Call.label = <<"F","o","r","m","s"," ","-"," ","L">>

(***************************************************************************)
(* The Responsive Testing Matrix                                           *)
(***************************************************************************)
\* the matrix has been built and sorted
MatrixBuilt == pc \in {"visualizations", "done"}

\* the page results that have a responsive_testing block
RespResults ==
    {r \in DOMAIN page_results : IsPresent(responsive_testing_of(page_results[r]))}

\* the breakpoints list of page result r
DeclaredBreakpoints(r) == Val(responsive_testing_of(page_results[r])).breakpoints

\* the row is the one of page result r at its b-th declared breakpoint
RowOf(row, r, b) ==
    /\ row.Domain = domain_and_page_of(page_results[r]).domain
    /\ row.Page = domain_and_page_of(page_results[r]).page
    /\ row.Breakpoint = DeclaredBreakpoints(r)[b]

\* C16: the matrix has one row for each page result with a
\* responsive_testing block, each breakpoint declared in its breakpoints
\* list and each test type of pass 1, |breakpoints| x |test types| rows a
\* page, also for a declared breakpoint without entry or without
\* tests.responsive.tests subtree in breakpoint_results.
C16_PivotCompleteness ==
    MatrixBuilt =>
        /\ Len(responsive_matrix_data) =
              SumSeq([r \in 1..Len(page_results) |->
                  IF r \in RespResults
                  THEN Len(DeclaredBreakpoints(r)) * Cardinality(test_types)
                  ELSE 0])
        /\ \A r \in RespResults : \A b \in DOMAIN DeclaredBreakpoints(r) :
              \A t \in test_types :
                  \E i \in DOMAIN responsive_matrix_data :
                      /\ RowOf(responsive_matrix_data[i], r, b)
                      /\ responsive_matrix_data[i].Test = t


\* the key of breakpoint_results looked up for the b-th declared breakpoint
\* of page result r
BreakpointKey(r, b) ==
    IF DeclaredBreakpoints(r)[b].t = "int"
    THEN Numeral(DeclaredBreakpoints(r)[b].n)
    ELSE DeclaredBreakpoints(r)[b].items

\* the b-th declared breakpoint of page result r has a
\* tests.responsive.tests subtree in breakpoint_results
HasTree(r, b) ==
    /\ Has(Val(responsive_testing_of(page_results[r])).breakpoint_results,
           BreakpointKey(r, b))
    /\ IsPresent(responsive_tests_of(
           Get(Val(responsive_testing_of(page_results[r])).breakpoint_results,
               BreakpointKey(r, b))))

\* that subtree
Tree(r, b) ==
    Val(responsive_tests_of(
        Get(Val(responsive_testing_of(page_results[r])).breakpoint_results,
            BreakpointKey(r, b))))

\* the issues list of test type t in a subtree, empty when it is missing
IssuesIn(tests, t) ==
    IF Has(tests, t) /\ IsPresent(Get(tests, t).issues)
    THEN Val(Get(tests, t).issues) ELSE <<>>

\* the status and the issue count of the row are the ones of its test
\* type in the subtree
RowAgrees(row, tests) ==
    /\ row.Status \in {"Issues Found", "Pass", "Not Tested"}
    /\ row.Status = "Issues Found" <=>
          Has(tests, row.Test) /\ Len(IssuesIn(tests, row.Test)) > 0
    /\ row.Status = "Issues Found" =>
          row.IssueCount = JInt(Len(IssuesIn(tests, row.Test)))
    /\ row.Status = "Pass" <=>
          Has(tests, row.Test) /\ Len(IssuesIn(tests, row.Test)) = 0
    /\ row.Status = "Pass" => row.IssueCount = JInt(0)
    /\ row.Status = "Not Tested" <=> ~Has(tests, row.Test)

\* C17: every row of the matrix has one of the three statuses: "Issues
\* Found" exactly when its test type is present at its breakpoint with a
\* non-empty issues list (Issue Count the length of the list), "Pass"
\* exactly when it is present with an empty or missing issues list (Issue
\* Count 0), "Not Tested" exactly when it is absent from the breakpoint's
\* result tree, so that an absent test type is never reported as "Pass".
C17_TriState ==
    MatrixBuilt =>
        /\ \A i \in DOMAIN responsive_matrix_data :
              \E r \in RespResults : \E b \in DOMAIN DeclaredBreakpoints(r) :
                  /\ RowOf(responsive_matrix_data[i], r, b)
                  /\ HasTree(r, b)
                  /\ RowAgrees(responsive_matrix_data[i], Tree(r, b))
        /\ \A r \in RespResults : \A b \in DOMAIN DeclaredBreakpoints(r) :
              HasTree(r, b) =>
                  \A t \in test_types :
                      \E i \in DOMAIN responsive_matrix_data :
                          /\ RowOf(responsive_matrix_data[i], r, b)
                          /\ responsive_matrix_data[i].Test = t
                          /\ RowAgrees(responsive_matrix_data[i], Tree(r, b))

\* C17 witness: a matrix with the three statuses, the "Pass" of a test
\* type without issues list among them
C17_Witness ==
    /\ MatrixBuilt
    /\ \E i \in DOMAIN responsive_matrix_data :
          /\ responsive_matrix_data[i].Status = "Issues Found"
          /\ responsive_matrix_data[i].IssueCount = JInt(3)
    /\ \E i \in DOMAIN responsive_matrix_data :
          /\ responsive_matrix_data[i].Status = "Not Tested"
          /\ responsive_matrix_data[i].IssueCount = [JStr EXCEPT !.items = <<"-">>]
    /\ \E i \in DOMAIN responsive_matrix_data :
          \E r \in RespResults : \E b \in DOMAIN DeclaredBreakpoints(r) :
              /\ RowOf(responsive_matrix_data[i], r, b)
              /\ HasTree(r, b)
              /\ Has(Tree(r, b), responsive_matrix_data[i].Test)
              /\ ~IsPresent(Get(Tree(r, b), responsive_matrix_data[i].Test).issues)
              /\ responsive_matrix_data[i].Status = "Pass"


\* the number a breakpoint stands for
BreakpointNumber(bp) == IF bp.t = "int" THEN bp.n ELSE int_of(bp.items)

\* x before y by (domain, page, breakpoint as a number, test)
NumericKeyLess(x, y) ==
    IF x.Domain # y.Domain THEN StrLess(x.Domain, y.Domain)
    ELSE IF x.Page # y.Page THEN StrLess(x.Page, y.Page)
    ELSE IF BreakpointNumber(x.Breakpoint) # BreakpointNumber(y.Breakpoint)
         THEN BreakpointNumber(x.Breakpoint) < BreakpointNumber(y.Breakpoint)
    ELSE StrLess(x.Test, y.Test)

\* C18: the rows of the matrix are in ascending order of (domain, page,
\* breakpoint, test), the breakpoints compared as numbers, whether they are
\* given as integers or as numeric strings.
C18_PivotOrdering ==
    MatrixBuilt =>
        \A i, j \in DOMAIN responsive_matrix_data :
            i < j => ~NumericKeyLess(responsive_matrix_data[j], responsive_matrix_data[i])


\* every issue of the list has its element, id, details and severity
AllFields(issues) ==
    \A i \in DOMAIN issues :
        /\ IsPresent(issues[i].element) /\ IsPresent(issues[i].id)
        /\ IsPresent(issues[i].details) /\ IsPresent(issues[i].severity)

\* "<element> <id>: <details> (<severity>)"
Description(issue) ==
    Val(issue.element) \o <<" ">> \o Val(issue.id) \o <<":", " ">>
    \o Val(issue.details) \o <<" ", "(">> \o Val(issue.severity) \o <<")">>

\* the Issue Details expected of a list of k >= 1 issues
ExpectedDetails(issues) ==
    LET k == Len(issues)
        shown == [i \in 1..(IF k < 3 THEN k ELSE 3) |-> Description(issues[i])]
        note == <<"\n", ".", ".", ".", "a", "n", "d", " ">> \o Numeral(k - 3)
                \o <<" ", "m", "o", "r", "e">>
    IN  StrJoin(shown, <<"\n">>) \o (IF k > 3 THEN note ELSE <<>>)

\* C19: the Issue Details of a row with k >= 1 issues are the first
\* min(k, 3) descriptions "<element> <id>: <details> (<severity>)" in the
\* order of the input, followed by a note naming the k - 3 issues left out
\* exactly when k > 3.
C19_DetailsTruncation ==
    MatrixBuilt =>
        /\ \A r \in RespResults : \A b \in DOMAIN DeclaredBreakpoints(r) :
              HasTree(r, b) =>
                  \A t \in test_types :
                      (Len(IssuesIn(Tree(r, b), t)) >= 1
                       /\ AllFields(IssuesIn(Tree(r, b), t))) =>
                          \E i \in DOMAIN responsive_matrix_data :
                              /\ RowOf(responsive_matrix_data[i], r, b)
                              /\ responsive_matrix_data[i].Test = t
                              /\ responsive_matrix_data[i].IssueDetails
                                    = ExpectedDetails(IssuesIn(Tree(r, b), t))
        /\ \A i \in DOMAIN responsive_matrix_data :
              responsive_matrix_data[i].Status = "Issues Found" =>
                  \E r \in RespResults : \E b \in DOMAIN DeclaredBreakpoints(r) :
                      /\ RowOf(responsive_matrix_data[i], r, b)
                      /\ HasTree(r, b)
                      /\ AllFields(IssuesIn(Tree(r, b), responsive_matrix_data[i].Test)) =>
                            responsive_matrix_data[i].IssueDetails
                                = ExpectedDetails(IssuesIn(Tree(r, b),
                                                           responsive_matrix_data[i].Test))

\* C19 witness: a row of four issues, three of them shown and one named in
\* the note, and a row of two issues without note
C19_Witness ==
    /\ MatrixBuilt
    /\ \E i \in DOMAIN responsive_matrix_data :
          /\ responsive_matrix_data[i].IssueCount = JInt(4)
          /\ responsive_matrix_data[i].IssueDetails =
                <<"d","i","v"," ","1",":"," ","w","i","d","e"," ","(","h","i",
                  "g","h",")","\n","d","i","v"," ","2",":"," ","w","i","d",
                  "e"," ","(","h","i","g","h",")","\n","d","i","v"," ","3",
                  ":"," ","w","i","d","e"," ","(","h","i","g","h",")","\n",
                  ".",".",".","a","n","d"," ","1"," ","m","o","r","e">>
    /\ \E i \in DOMAIN responsive_matrix_data :
          /\ responsive_matrix_data[i].IssueCount = JInt(2)
          /\ responsive_matrix_data[i].IssueDetails =
                <<"d","i","v"," ","1",":"," ","w","i","d","e"," ","(","h","i",
                  "g","h",")","\n","d","i","v"," ","2",":"," ","w","i","d",
                  "e"," ","(","h","i","g","h",")">>


(***************************************************************************)
(* The mobile and desktop buckets of the Responsive Visualizations         *)
(***************************************************************************)
\* the issue counts of test type t in the breakpoint_results of all page
\* results, those of the breakpoints that satisfy Counted(bp) only
IssueCountOver(t, Counted(_)) ==
    SumSeq([r \in 1..Len(page_results) |->
        IF r \in RespResults
        THEN LET bp_results == Val(responsive_testing_of(page_results[r]))
                                   .breakpoint_results
             IN  SumSeq([b \in 1..Len(bp_results) |->
                     IF Counted(int_of(bp_results[b].k))
                        /\ IsPresent(responsive_tests_of(bp_results[b].v))
                     THEN Len(IssuesIn(Val(responsive_tests_of(bp_results[b].v)), t))
                     ELSE 0])
        ELSE 0])

\* C20: for each test type of the chart, the mobile bucket is the sum of
\* the issue counts at the breakpoints <= 768 and the desktop bucket the sum
\* at the breakpoints > 768, so that 768 is mobile; mobile + desktop is the
\* issue count of the test type over all breakpoints and pages.
C20_MobileDesktopSplit ==
    IsPresent(mobile_desktop_data) =>
        \A t \in DOMAIN visual_test_types :
            /\ Val(mobile_desktop_data)[t].mobile
                  = IssueCountOver(visual_test_types[t], LAMBDA bp : bp <= 768)
            /\ Val(mobile_desktop_data)[t].desktop
                  = IssueCountOver(visual_test_types[t], LAMBDA bp : bp > 768)
            /\ Val(mobile_desktop_data)[t].mobile + Val(mobile_desktop_data)[t].desktop
                  = IssueCountOver(visual_test_types[t], LAMBDA bp : TRUE)

\* C20 witness: overflow has 4 issues at 320, 2 at 768 and 1 at 1024,
\* which makes 6 mobile and 1 desktop
C20_Witness ==
    /\ pc = "done"
    /\ Len(page_results) = 1
    /\ IsPresent(mobile_desktop_data)
    /\ IssueCountOver(visual_test_types[1], LAMBDA bp : bp = 768) = 2
    /\ Val(mobile_desktop_data)[1].mobile = 6
    /\ Val(mobile_desktop_data)[1].desktop = 1


(***************************************************************************)
(* _flatten_dict                                                           *)
(***************************************************************************)
\* _flatten_dict has returned
Flattened == IsPresent(flatten_call.returned)

\* what it returned
FlatItems == Val(flatten_call.returned)

\* the dotted paths of a record under a prefix, in the order of the record:
\* one for every value that is not a mapping and one for every empty
\* mapping, with the value at the path
RECURSIVE DottedPaths(_, _)
DottedPaths(d, prefix) ==
    ConcatAll([i \in 1..Len(d) |->
        LET path == IF Len(prefix) > 0 THEN prefix \o <<".">> \o d[i].k ELSE d[i].k
        IN  IF d[i].v.t = "dict" /\ Len(d[i].v.items) > 0
            THEN DottedPaths(d[i].v.items, path)
            ELSE <<[k |-> path, v |-> d[i].v]>>])

\* the paths of the record _flatten_dict was called on
InputPaths == DottedPaths(flatten_call.d, flatten_call.prefix)

\* C21: the keys of the mapping _flatten_dict returns are the dotted paths,
\* under the prefix, to the leaves and lists reachable through mappings,
\* one entry per path, and nothing reachable is lost: not an empty mapping,
\* not one of two paths that render to the same dotted string.
C21_FlattenKeyExactness ==
    Flattened =>
        /\ Len(FlatItems) = Len(InputPaths)
        /\ \A i \in DOMAIN InputPaths : Has(FlatItems, InputPaths[i].k)
        /\ \A i \in DOMAIN FlatItems :
              \E j \in DOMAIN InputPaths : InputPaths[j].k = FlatItems[i].k


\* a flattened mapping taken as a single-level record
Rewrapped(items) ==
    [i \in 1..Len(items) |-> [k |-> items[i].k, v |-> JText(items[i].v)]]

\* C22 as stated: flattening what flatten(r, p) returned, under the same
\* prefix p, gives flatten(r, p) again.
C22_FlattenIdempotence_AsStated ==
    Flattened =>
        flatten_dict(Rewrapped(FlatItems), flatten_call.prefix) = FlatItems

\* C22: flattening what flatten(r, '') returned under a prefix p gives
\* flatten(r, p); with the empty prefix, flattening what flatten(r, '')
\* returned gives flatten(r, '') again.
C22_FlattenIdempotence ==
    Flattened =>
        /\ flatten_dict(Rewrapped(flatten_dict(flatten_call.d, <<>>)),
                        flatten_call.prefix) = FlatItems
        /\ flatten_call.prefix = <<>> =>
              flatten_dict(Rewrapped(FlatItems), <<>>) = FlatItems

\* C22 witness: a record with a str and a nested mapping, flattened under
\* the prefix 'forms'
C22_Witness ==
    /\ Flattened
    /\ flatten_call.prefix = Str.forms
    /\ FlatItems[1].k = Str.forms \o <<".", "a">>
    /\ flatten_call.d[1].v = JText(<<"x">>)
    /\ flatten_call.d[2].v.t = "dict"
    /\ Len(FlatItems) = 3


\* the character of s at i, "" past its end
At(s, i) == IF i \in DOMAIN s THEN s[i] ELSE ""

\* json.loads: a value and the index after it, read from index i of s
RECURSIVE ParseValue(_, _)
RECURSIVE ParseElements(_, _, _)
RECURSIVE ParseMembers(_, _, _)
RECURSIVE ParseChars(_, _, _)
RECURSIVE ParseDigits(_, _, _)
\* the characters of a string up to its closing quote
ParseChars(s, i, chars) ==
    IF At(s, i) = "" THEN [v |-> chars, i |-> i]
    ELSE IF s[i] = "\"" THEN [v |-> chars, i |-> i + 1]
    ELSE IF s[i] = "\\" THEN ParseChars(s, i + 2, Append(chars, At(s, i + 1)))
    ELSE ParseChars(s, i + 1, Append(chars, s[i]))

ParseDigits(s, i, n) ==
    IF \E d \in DOMAIN DigitChars : DigitChars[d] = At(s, i)
    THEN ParseDigits(s, i + 1,
             10 * n + (CHOOSE d \in DOMAIN DigitChars : DigitChars[d] = s[i]) - 1)
    ELSE [v |-> n, i |-> i]

ParseValue(s, i) ==
    CASE At(s, i) = "\"" ->
            [v |-> JText(ParseChars(s, i + 1, <<>>).v),
             i |-> ParseChars(s, i + 1, <<>>).i]
      [] At(s, i) = "t" -> [v |-> JBool(TRUE), i |-> i + 4]
      [] At(s, i) = "f" -> [v |-> JBool(FALSE), i |-> i + 5]
      [] At(s, i) = "n" -> [v |-> JNone, i |-> i + 4]
      [] At(s, i) = "-" ->
            [v |-> JInt(0 - ParseDigits(s, i + 1, 0).v),
             i |-> ParseDigits(s, i + 1, 0).i]
      [] At(s, i) = "[" ->
            IF At(s, i + 1) = "]" THEN [v |-> JListOf(<<>>), i |-> i + 2]
            ELSE ParseElements(s, i + 1, <<>>)
      [] At(s, i) = "{" ->
            IF At(s, i + 1) = "}" THEN [v |-> JDict(<<>>), i |-> i + 2]
            ELSE ParseMembers(s, i + 1, <<>>)
      [] OTHER ->
            [v |-> JInt(ParseDigits(s, i, 0).v), i |-> ParseDigits(s, i, 0).i]

\* the elements of a list from index i on, up to its closing bracket
ParseElements(s, i, elements) ==
    LET element == ParseValue(s, i)
    IN  IF At(s, element.i) = ","
        THEN ParseElements(s, element.i + 2, Append(elements, element.v))
        ELSE [v |-> JListOf(Append(elements, element.v)), i |-> element.i + 1]

\* the members of a mapping from index i on, up to its closing brace
ParseMembers(s, i, members) ==
    LET key == ParseChars(s, i + 1, <<>>)
        value == ParseValue(s, key.i + 2)
        member == [k |-> key.v, v |-> value.v]
    IN  IF At(s, value.i) = ","
        THEN ParseMembers(s, value.i + 2, Append(members, member))
        ELSE [v |-> JDict(Append(members, member)), i |-> value.i + 1]

JsonLoads(s) == ParseValue(s, 1).v

\* two values are structurally equal
RECURSIVE SameValue(_, _)
SameValue(x, y) ==
    /\ x.t = y.t
    /\ CASE x.t = "list" ->
               /\ Len(x.items) = Len(y.items)
               /\ \A i \in DOMAIN x.items : SameValue(x.items[i], y.items[i])
         [] x.t = "dict" ->
               /\ Len(x.items) = Len(y.items)
               /\ \A i \in DOMAIN x.items :
                     /\ x.items[i].k = y.items[i].k
                     /\ SameValue(x.items[i].v, y.items[i].v)
         [] x.t = "str" -> x.items = y.items
         [] x.t = "int" -> x.n = y.n
         [] x.t = "bool" -> x.b = y.b
         [] OTHER -> TRUE

\* C23 as stated: for every list at a path p of the record, the string
\* stored at the key p decodes to a value structurally equal to the list.
C23_ListRoundTrip_AsStated ==
    Flattened =>
        \A i \in DOMAIN InputPaths :
            InputPaths[i].v.t = "list" =>
                /\ Has(FlatItems, InputPaths[i].k)
                /\ SameValue(JsonLoads(Get(FlatItems, InputPaths[i].k)),
                             InputPaths[i].v)

\* C23: for every list at a path p of the record that no other path
\* renders to, the string stored at the key p decodes to a value
\* structurally equal to the list; the elements of a list get no keys of
\* their own.
C23_ListRoundTrip ==
    Flattened =>
        /\ \A i \in DOMAIN InputPaths :
              (/\ InputPaths[i].v.t = "list"
               /\ \A j \in DOMAIN InputPaths :
                     InputPaths[j].k = InputPaths[i].k => j = i) =>
                  /\ Has(FlatItems, InputPaths[i].k)
                  /\ SameValue(JsonLoads(Get(FlatItems, InputPaths[i].k)),
                               InputPaths[i].v)
        /\ \A i \in DOMAIN FlatItems :
              \E j \in DOMAIN InputPaths : InputPaths[j].k = FlatItems[i].k

\* C23 witness: a list with a negative int, a str with a quote and a
\* backslash, a bool and None, and a list of a list and a mapping
C23_Witness ==
    /\ Flattened
    /\ flatten_call.prefix = Str.forms
    /\ Len(flatten_call.d) = 2
    /\ SameValue(flatten_call.d[1].v, FlattenValues[9])
    /\ SameValue(flatten_call.d[2].v, FlattenValues[10])
    /\ FlatItems[1].v = <<"[", "-", "2", ",", " ", "\"", "a", "\\", "\"", "\\",
                          "\\", "\"", ",", " ", "f", "a", "l", "s", "e", ",",
                          " ", "n", "u", "l", "l", "]">>


(***************************************************************************)
(* The Test Documentation sheet                                            *)
(***************************************************************************)
\* the sheet has been built
DocsBuilt == pc \in {"matrix", "visualizations", "done"}

\* the checks of the record under a key of test_documentation
ChecksOfRecord(key) ==
    IF IsPresent(Get(test_documentation, key).tests)
    THEN Val(Get(test_documentation, key).tests) ELSE <<>>

\* C24: the table has one "Test" row for each record of test_documentation,
\* and each Test row is immediately followed by the "Check" rows of its own
\* checks, one per check, with no row of another record in between.
C24_DocumentationTableShape ==
    DocsBuilt =>
        /\ \A c \in DOMAIN test_documentation :
              Cardinality({i \in DOMAIN docs_data :
                  /\ docs_data[i].Type = "Test"
                  /\ docs_data[i].Record = test_documentation[c].k}) = 1
        /\ Cardinality({i \in DOMAIN docs_data : docs_data[i].Type = "Test"})
              = Len(test_documentation)
        /\ \A i \in DOMAIN docs_data :
              docs_data[i].Type = "Test" =>
                  LET n == Len(ChecksOfRecord(docs_data[i].Record))
                  IN  /\ \A j \in (i + 1)..(i + n) :
                            /\ j \in DOMAIN docs_data
                            /\ docs_data[j].Type = "Check"
                            /\ docs_data[j].Record = docs_data[i].Record
                      /\ (i + n + 1) \in DOMAIN docs_data =>
                            docs_data[i + n + 1].Type = "Test"

(***************************************************************************)
(* self.test_documentation across calls of generate_excel_report           *)
(***************************************************************************)
\* the cache a generator fresh from __init__ holds after lines 622-667 and
\* collect_test_documentation have read these test runs and page results
RECURSIVE FetchedFrom(_, _)
FetchedFrom(cache, runs) ==
    IF Len(runs) = 0 THEN cache
    ELSE FetchedFrom(fetch_run(cache, runs[1]), Tail(runs))

RECURSIVE CollectedFromRuns(_, _)
CollectedFromRuns(cache, runs) ==
    IF Len(runs) = 0 THEN cache
    ELSE CollectedFromRuns(collect_run(cache, runs[1]), Tail(runs))

RECURSIVE CollectedFromResults(_, _)
CollectedFromResults(cache, results) ==
    IF Len(results) = 0 THEN cache
    ELSE CollectedFromResults(collect_result(cache, results[1]), Tail(results))

RECURSIVE ScannedFrom(_, _)
ScannedFrom(cache, results) ==
    IF Len(results) = 0 THEN cache
    ELSE ScannedFrom(scan_result(cache, results[1]).cache, Tail(results))

FreshCache ==
    ScannedFrom(
        CollectedFromResults(
            CollectedFromRuns(FetchedFrom(<<>>, test_runs), test_runs),
            page_results),
        page_results)

\* C25: the report a call ends with is the report of its own inputs: the
\* documentation cache, the labels of the summary and the documentation
\* table are those a generator that has built no report before would give,
\* so nothing registered by an earlier call on the same generator is seen.
C25_NoCrossCallState ==
    pc = "done" =>
        /\ test_documentation = FreshCache
        /\ summary = Present(calculate_summary(FreshCache, page_results))
        /\ docs_data = sorted_docs(docs_data_of(FreshCache))

(***************************************************************************)
(* _record_structure                                                       *)
(***************************************************************************)
StructureRecorded == IsPresent(structure_call.returned)

\* the name of the type of a value, as the entries spell it
TypeNames ==
    [dict |-> <<"d","i","c","t">>, list |-> <<"l","i","s","t">>,
     str |-> <<"s","t","r">>, int |-> <<"i","n","t">>,
     bool |-> <<"b","o","o","l">>,
     NoneType |-> <<"N","o","n","e","T","y","p","e">>]

Annotated(path, value) == path \o <<" ", "(">> \o TypeNames[value.t] \o <<")">>

\* the entries of the fields reachable under data: through the keys of
\* mappings (path.key) and through the first element of a non-empty
\* sequence when that element is a mapping (path[]); with_mappings says
\* whether a mapping-valued field has an entry of its own
RECURSIVE EntriesUnder(_, _, _)
EntriesUnder(data, path, with_mappings) ==
    IF data.t = "dict"
    THEN UNION {
             LET field == data.items[i]
                 below == IF path = <<>> THEN field.k
                          ELSE path \o <<".">> \o field.k
             IN  (IF field.v.t = "dict" /\ ~with_mappings THEN {}
                  ELSE {Annotated(below, field.v)})
                 \cup EntriesUnder(field.v, below, with_mappings)
             : i \in DOMAIN data.items}
    ELSE IF data.t = "list" /\ Len(data.items) > 0
    THEN IF data.items[1].t = "dict"
         THEN EntriesUnder(data.items[1], path \o <<"[", "]">>, with_mappings)
         ELSE {}
    ELSE {}

\* C26 as stated: the set after the call is the set before it plus one
\* entry "<path> (<type>)" for every field reachable under the value that is
\* not mapping-valued, and nothing is added for a top-level value that is
\* empty or no mapping.
C26_StructureRecorder_AsStated ==
    StructureRecorded =>
        Val(structure_call.returned) =
            structure_call.structure_set
            \cup (IF structure_call.data.t = "dict"
                  THEN EntriesUnder(structure_call.data, structure_call.path, FALSE)
                  ELSE {})

\* C26: the set after the call is the set before it plus one entry
\* "<path> (<type>)" for every field reachable under the value, the
\* mapping-valued and the sequence-valued fields included; fields are
\* reached through the keys of mappings (path.key) and through the first
\* element of a non-empty sequence that is a mapping (path[]), also when the
\* top-level value is such a sequence; nothing is ever removed.
C26_StructureRecorder ==
    StructureRecorded =>
        Val(structure_call.returned) =
            structure_call.structure_set
            \cup EntriesUnder(structure_call.data, structure_call.path, TRUE)

\* a record under path 'p' with a mapping-valued field 'a' and a field 'c'
\* that is a sequence of mappings, recorded into a set that held 'z'
C26_Witness ==
    /\ StructureRecorded
    /\ structure_call.path = <<"p">>
    /\ <<"z">> \in structure_call.structure_set
    /\ <<"z">> \in Val(structure_call.returned)
    /\ <<"p", ".", "a", " ", "(", "d", "i", "c", "t", ")">>
           \in Val(structure_call.returned)
    /\ <<"p", ".", "a", ".", "b", " ", "(", "i", "n", "t", ")">>
           \in Val(structure_call.returned)
    /\ <<"p", ".", "c", " ", "(", "l", "i", "s", "t", ")">>
           \in Val(structure_call.returned)
    /\ <<"p", ".", "c", "[", "]", ".", "k", " ", "(", "i", "n", "t", ")">>
           \in Val(structure_call.returned)
    /\ <<"p", ".", "c", "[", "]", ".", "z", " ", "(", "s", "t", "r", ")">>
           \notin Val(structure_call.returned)

(***************************************************************************)
(* Pages Affected                                                          *)
(***************************************************************************)
\* the Issues by Site loop has completed
SitesBuilt == pc \in {"documentation", "matrix", "visualizations", "done"}

\* the page results of a site
PagesOfSite(site) ==
    {p \in DOMAIN page_results : site_url_of(page_results[p]) = site}

\* the page results on which an issue type was counted
PagesCounting(issue_type) ==
    {p \in DOMAIN page_results :
        /\ has_accessibility(page_results[p])
        /\ LET hits == tests_hits(test_documentation,
                                  tests_or_empty(page_results[p]))
           IN  \E h \in DOMAIN hits : hits[h].issue_type = issue_type}

\* C27: for every site and issue type of Issues by Site, Pages Affected is
\* at most the number of page results of the site and is the number of
\* page results of the site on which the issue type was counted.
C27_PagesAffectedBound ==
    SitesBuilt =>
        \A s \in DOMAIN issues_by_site :
            \A t \in DOMAIN issues_by_site[s].v :
                LET site == issues_by_site[s].k
                    row == issues_by_site[s].v[t]
                IN  /\ row.v.PagesAffected <= Cardinality(PagesOfSite(site))
                    /\ row.v.PagesAffected =
                          Cardinality(PagesOfSite(site) \cap PagesCounting(row.k))

(***************************************************************************)
(* Precedence of the documentation sources                                 *)
(***************************************************************************)
\* collect_test_documentation has returned
Collected ==
    pc \in {"summary", "by_url", "by_site", "documentation", "matrix",
            "visualizations", "done"}

\* two spellings of one test name: equal up to case and to - for _
SameTest(a, b) ==
    StrLower(StrReplace(a, "-", "_")) = StrLower(StrReplace(b, "-", "_"))

\* the records the test runs carry for a test: in the top-level
\* documentation mapping or inline in tests
RunRecordsFor(test_id) ==
    UNION {{Val(test_runs[r].documentation)[i].v :
               i \in {i \in DOMAIN Val(test_runs[r].documentation) :
                         SameTest(Val(test_runs[r].documentation)[i].k, test_id)}} :
           r \in {r \in DOMAIN test_runs : IsPresent(test_runs[r].documentation)}}
    \cup UNION {{Val(Val(test_runs[r].tests)[i].v.documentation) :
               i \in {i \in DOMAIN Val(test_runs[r].tests) :
                         /\ Val(test_runs[r].tests)[i].v.isdict
                         /\ IsPresent(Val(test_runs[r].tests)[i].v.documentation)
                         /\ SameTest(Val(test_runs[r].tests)[i].k, test_id)}} :
           r \in {r \in DOMAIN test_runs : IsPresent(test_runs[r].tests)}}

\* the test ids of the top-level documentation mappings of the test runs
RunDocumentedIds ==
    UNION {{Val(test_runs[r].documentation)[i].k :
               i \in DOMAIN Val(test_runs[r].documentation)} :
           r \in {r \in DOMAIN test_runs : IsPresent(test_runs[r].documentation)}}

\* the record a page result embeds for a test: inline `documentation`, or
\* else `<testId>.documentation`
EmbeddedRecord(result, test_id) ==
    LET tests == TestsRead(result)
    IN  IF ~Has(tests, test_id) \/ ~Get(tests, test_id).isdict THEN Absent
        ELSE IF IsPresent(Get(tests, test_id).documentation)
             THEN Get(tests, test_id).documentation
        ELSE IF has_nested_documentation(test_id, Get(tests, test_id))
             THEN Get(Get(tests, test_id).fields, test_id).documentation
        ELSE Absent

\* the page results that embed a record for a test
PagesEmbedding(test_id) ==
    {p \in DOMAIN page_results :
        IsPresent(EmbeddedRecord(page_results[p], test_id))}

\* the test ids of the page results
PageTestIds ==
    UNION {{TestsRead(page_results[p])[i].k :
               i \in DOMAIN TestsRead(page_results[p])} :
           p \in DOMAIN page_results}

\* C28: after collection, a test id of a test run's top-level documentation
\* mapping holds a record of the test runs, whatever record the page
\* results embed for it; and a test id no test run carries a record for
\* holds the record of the earliest page result that embeds one.
C28_SourcePrecedence ==
    Collected =>
        /\ \A test_id \in RunDocumentedIds :
              /\ Has(test_documentation, test_id)
              /\ Get(test_documentation, test_id) \in RunRecordsFor(test_id)
        /\ \A test_id \in PageTestIds :
              (RunRecordsFor(test_id) = {} /\ PagesEmbedding(test_id) # {}) =>
                  LET first == CHOOSE p \in PagesEmbedding(test_id) :
                                   \A q \in PagesEmbedding(test_id) : p <= q
                  IN  /\ Has(test_documentation, test_id)
                      /\ Present(Get(test_documentation, test_id)) =
                            EmbeddedRecord(page_results[first], test_id)

(***************************************************************************)
(* Bounds of the summary                                                   *)
(***************************************************************************)
\* C29: after calculate_summary every value of issues_by_type is at least
\* 1, total_issues is at least 0, and pages_with_issues lies between 0 and
\* total_pages.
C29_SummaryBounds ==
    Computed =>
        /\ \A i \in DOMAIN Summary.issues_by_type :
              Summary.issues_by_type[i].v >= 1
        /\ Summary.total_issues >= 0
        /\ 0 <= Summary.pages_with_issues
        /\ Summary.pages_with_issues <= Summary.total_pages

\* C29 witness: an issue flag whose details hold a 0, a negative number or
\* an empty list before a list of two: one issue type, counted 2
C29_Witness ==
    /\ Computed
    /\ Len(Summary.issues_by_type) = 1
    /\ Summary.issues_by_type[1].v = 2
    /\ \E x \in InputFlags :
          /\ x.flag.k = Str.details
          /\ x.flag.v.t = "dict"
          /\ Len(x.flag.v.items) = 2
          /\ x.flag.v.items[1].v \in {JInt(0), JInt(-1), JList(0)}
          /\ x.flag.v.items[2].v = JList(2)

(***************************************************************************)
(* issue_by_breakpoint against the matrix                                  *)
(***************************************************************************)
\* the sum of Issue Count over the rows of the matrix at breakpoint b with
\* Status "Issues Found"
MatrixIssuesAt(b) ==
    SumSeq([i \in 1..Len(responsive_matrix_data) |->
        IF /\ responsive_matrix_data[i].Status = "Issues Found"
           /\ BreakpointNumber(responsive_matrix_data[i].Breakpoint) = b
        THEN responsive_matrix_data[i].IssueCount.n ELSE 0])

\* the breakpoints of the matrix rows
MatrixBreakpoints ==
    {BreakpointNumber(responsive_matrix_data[i].Breakpoint) :
        i \in DOMAIN responsive_matrix_data}

\* C30: for every breakpoint, the total of issue_by_breakpoint (0 where it
\* has no key) is the sum of Issue Count over the rows of the matrix at that
\* breakpoint with Status "Issues Found".
C30_CrossTabulationAgreement ==
    pc = "done" =>
        \A b \in MatrixBreakpoints \cup DOMAIN issue_by_breakpoint :
            (IF b \in DOMAIN issue_by_breakpoint THEN issue_by_breakpoint[b] ELSE 0)
                = MatrixIssuesAt(b)

=============================================================================
